---- MODULE Spec2Model ----
(***************************************************************************)
(* Conversation / workflow orchestration core of the video production      *)
(* assistant.  Each React component is a state machine: its useState       *)
(* fields are variables, each event handler is one action per suspension   *)
(* point (an await, a stream fragment), and the useEffect that saves to    *)
(* localStorage is part of every action that changes its dependencies.     *)
(*                                                                         *)
(* Texts are sequences of symbols (<<>> is the empty string), so that      *)
(* concatenation is \o and a fragment order can be observed.  Message ids  *)
(* are the integers Date.now() returns (toString is injective); the id     *)
(* 'init' is InitId.                                                       *)
(*                                                                         *)
(* Six components are modelled, each with its own specification because    *)
(* each keeps its own state: BenchmarkStudio (Spec), ScriptWriter          *)
(* (SpecScript), AssistantChat (SpecChat), TopicFinder (SpecTopic),        *)
(* MediaAnalyzer (SpecMedia; SpecIngest is its upload list alone, with the *)
(* fairness of a FileReader) and the ImitationGuide of PromptLibrary with  *)
(* its media generation (SpecGuide; SpecGuideFair adds that the provider   *)
(* answers a generation request).  SpecBuilder applies the pure functions  *)
(* of the service layer to every input.  The provider (session handles,    *)
(* streams in flight per handle), the clock and the record of the last     *)
(* handler are shared.                                                     *)
(***************************************************************************)
EXTENDS Integers, Sequences, FiniteSets, TLC

\* ------------------------------------------------------------------ bounds
MaxClock == 1
MaxFrags == 1
MaxHandles == 2
MaxFiles == 1
MaxTurns == 1

\* ------------------------------------------------------------- vocabulary
NoSession == 0
Handles == 1..MaxHandles
InitId == -1
EmptyText == <<>>
\* c.text of a chunk: undefined/empty, or a piece of text
Frags == {<<>>, <<"a">>}
UserTexts == {<<"q">>}
Urls == {"", "u"}
Ideas == {"", "i"}
\* the literal returned by analyzeBenchmarkContent when response.text is falsy
AnalysisFailedText == <<"analysis-failed">>
ProviderTexts == {<<>>, <<"r">>}
NoSnapshot == [none |-> TRUE]
IdleTask == [pc |-> "idle", chat |-> NoSession, msgId |-> InitId,
             fullText |-> EmptyText, delivered |-> <<>>]

\* ScriptWriter: the text of the message appended when generation fails
GenerateFailedText == <<"generate-failed">>
Topics == {"", "t"}

\* AssistantChat: messages are { role, text }; sends are not serialized, so
\* several handleSend calls can be suspended at once
MaxChatSends == 2
ChatSlots == 1..MaxChatSends
Greeting == [role |-> "model", text |-> <<"greeting">>]
ApologyText == <<"apology">>
NoHistory == <<>>
IdleChatTask == [pc |-> "idle", fullResponse |-> EmptyText, delivered |-> <<>>,
                 at |-> 0]

\* TopicFinder: files, and the parts of the request sent to the provider
MaxFileIds == 2
\* MediaAnalyzer: files picked over a run, and the percentages a read reports
MaxMediaFiles == 2
ReadPercents == {50, 100}
SendFailedText == <<"send-failed">>

\* guide chat with media generation: requests over a run, and the texts of
\* a generation message
MaxGens == 1
GeneratingText == <<"generating">>
GeneratedText == <<"generated">>
GenFailedText == <<"gen-failed">>
GenTypes == {"image", "video"}
NoMedia == "none"
IdleGen == [pc |-> "idle", tempId |-> InitId, genType |-> "image"]
MaxFileBytes == 20 * 1024 * 1024
FileSizes == {MaxFileBytes, MaxFileBytes + 1}
Undefined == "undefined"
Payload == "base64"
NoRequest == <<>>

RECURSIVE Flatten(_)
Flatten(fs) == IF fs = <<>> THEN <<>> ELSE Head(fs) \o Flatten(Tail(fs))

\* x || '' of JavaScript on a string read back from JSON
OrEmpty(x) == IF x = "" THEN "" ELSE x

VARIABLES
  \* --- BenchmarkStudio (four-step imitation workflow) ---
  step, refUrl, refFile, isAnalyzing, analysisResult,
  step2ChatSession, step2Messages, step2Typing,
  userIdea, userFiles, chatSession, messages, isTyping,
  \* async handlers in flight
  anaTask, s2Task, imiTask, sndTask, refRead, userReads,
  \* mount life cycle and what the restore effect read
  mount, parsedSaved,
  \* --- ScriptWriter (form, then chat): its fields carry the prefix sw ---
  swStep, swTopic, swLoading, swChatSession, swMessages, swGenTask, swSndTask,
  \* --- AssistantChat (floating helper): prefix ac ---
  acMounted, acMessages, acIsTyping, acTasks, acStore,
  \* --- TopicFinder (one-shot research with attachments): prefix tf ---
  tfRefFiles, tfBenchmarkFiles, tfLoading, tfError, tfResults, tfRequest,
  tfNextId,
  \* --- MediaAnalyzer (upload, then consultation): prefix ma ---
  maFiles, maPhase, maChatSession, maMessages, maIsTyping,
  maAnalysisProgress, maAuditTask, maSndTask, maNextId,
  \* --- BenchmarkStudio of PromptLibrary.tsx (guide chat with media
  \* generation): prefix pg ---
  pgStep, pgIsAnalyzing, pgChatSession, pgMessages, pgIsTyping,
  pgIsGenerating, pgImiTask, pgSndTask, pgGenTask, pgGens,
  \* --- collaborators ---
  localStorage, now, nextHandle, inflight,
  \* last handler that ran, the user-visible error notices it raised, and
  \* what it worked on
  ev

benchVars == <<step, refUrl, refFile, isAnalyzing, analysisResult,
               step2ChatSession, step2Messages, step2Typing,
               userIdea, userFiles, chatSession, messages, isTyping,
               anaTask, s2Task, imiTask, sndTask, refRead, userReads,
               mount, parsedSaved>>
scriptVars == <<swStep, swTopic, swLoading, swChatSession, swMessages,
                swGenTask, swSndTask>>
chatVars == <<acMounted, acMessages, acIsTyping, acTasks, acStore>>
topicVars == <<tfRefFiles, tfBenchmarkFiles, tfLoading, tfError, tfResults,
               tfRequest, tfNextId>>
mediaVars == <<maFiles, maPhase, maChatSession, maMessages, maIsTyping,
               maAnalysisProgress, maAuditTask, maSndTask, maNextId>>
guideVars == <<pgStep, pgIsAnalyzing, pgChatSession, pgMessages, pgIsTyping,
               pgIsGenerating, pgImiTask, pgSndTask, pgGenTask, pgGens>>
envVars == <<localStorage, now, nextHandle, inflight>>
vars == <<benchVars, scriptVars, chatVars, topicVars, mediaVars, guideVars,
          envVars, ev>>

\* what the handlers of one component leave alone
besidesBench == <<scriptVars, chatVars, topicVars, mediaVars, guideVars>>
besidesScript == <<benchVars, chatVars, topicVars, mediaVars, guideVars,
                   localStorage>>
besidesChat == <<benchVars, scriptVars, topicVars, mediaVars, guideVars,
                 localStorage, nextHandle, inflight>>
besidesTopic == <<benchVars, scriptVars, chatVars, mediaVars, guideVars,
                  localStorage, now, nextHandle, inflight>>
besidesMedia == <<benchVars, scriptVars, chatVars, topicVars, guideVars,
                  localStorage>>
besidesGuide == <<benchVars, scriptVars, chatVars, topicVars, mediaVars,
                  localStorage>>

NoArg == [none |-> TRUE]
EventWith(op, n, a) == [op |-> op, notice |-> n, arg |-> a]
Event(op, n) == EventWith(op, n, NoArg)

\* ---------------------------------------------------------- message lists
Msg(id, role, content) == [id |-> id, role |-> role, content |-> content]

\* prev.map(m => m.id === msgId ? { ...m, content: fullText } : m)
SetContentById(list, msgId, text) ==
  [i \in DOMAIN list |->
     IF list[i].id = msgId THEN [list[i] EXCEPT !.content = text] ELSE list[i]]

UserCount(list) == Cardinality({i \in DOMAIN list : list[i].role = "user"})

\* -------------------------------------------------------------- provider
Issue(h) == [inflight EXCEPT ![h] = @ + 1]
Settle(h) == [inflight EXCEPT ![h] = @ - 1]

\* ----------------------------------------------------------- persistence
\* JSON.stringify({ step, refUrl, userIdea })
Snapshot(s, u, i) == [step |-> s, refUrl |-> u, userIdea |-> i]

\* useEffect(() => localStorage.setItem(...), [step, refUrl, userIdea]):
\* runs after a render in which a dependency changed; `base` is the store
\* as the handler itself left it.
SaveEffect(s, u, i, base) ==
  IF <<s, u, i>> # <<step, refUrl, userIdea>> THEN Snapshot(s, u, i) ELSE base

\* C3, faulty variant of RestoredStep: the persisted step is restored as it is
RestoredStepAsSaved(saved) == saved.step

\* setStep(parsed.step > 1 ? 1 : 1)
RestoredStep(saved) == IF saved.step > 1 THEN 1 ELSE 1

\* ------------------------------------------------------- streaming tasks
\* for await (const chunk of stream) { fullText += (c.text || ""); ... }
TaskOpen(h) == [IdleTask EXCEPT !.pc = "open", !.chat = h]
TaskStreaming(task, id) == [task EXCEPT !.pc = "stream", !.msgId = id]
TaskAppend(task, f) ==
  [task EXCEPT !.fullText = @ \o f, !.delivered = Append(@, f)]

\* ------------------------------------------------------------------ Init
ZeroInflight == [h \in Handles |-> 0]

BenchInit ==
  /\ step = 1 /\ refUrl = "" /\ refFile = FALSE /\ isAnalyzing = FALSE
  /\ analysisResult = EmptyText
  /\ step2ChatSession = NoSession /\ step2Messages = <<>> /\ step2Typing = FALSE
  /\ userIdea = "" /\ userFiles = 0
  /\ chatSession = NoSession /\ messages = <<>> /\ isTyping = FALSE
  /\ anaTask = "idle" /\ s2Task = IdleTask /\ imiTask = IdleTask /\ sndTask = IdleTask
  /\ refRead = FALSE /\ userReads = 0
  /\ mount = "effects" /\ parsedSaved = NoSnapshot

ScriptInit ==
  /\ swStep = 1 /\ swTopic = "" /\ swLoading = FALSE
  /\ swChatSession = NoSession /\ swMessages = <<>>
  /\ swGenTask = IdleTask /\ swSndTask = IdleTask

ChatInit ==
  /\ acMounted = FALSE /\ acMessages = <<>> /\ acIsTyping = FALSE
  /\ acTasks = [k \in ChatSlots |-> IdleChatTask]
  /\ acStore = NoHistory

TopicInit ==
  /\ tfRefFiles = <<>> /\ tfBenchmarkFiles = <<>>
  /\ tfLoading = FALSE /\ tfError = FALSE /\ tfResults = FALSE
  /\ tfRequest = NoRequest /\ tfNextId = 1

MediaInit ==
  /\ maFiles = <<>> /\ maPhase = "upload" /\ maChatSession = NoSession
  /\ maMessages = <<>> /\ maIsTyping = FALSE /\ maAnalysisProgress = 0
  /\ maAuditTask = IdleTask /\ maSndTask = IdleTask /\ maNextId = 1

GuideInit ==
  /\ pgStep = 1 /\ pgIsAnalyzing = FALSE /\ pgChatSession = NoSession
  /\ pgMessages = <<>> /\ pgIsTyping = FALSE /\ pgIsGenerating = FALSE
  /\ pgImiTask = IdleTask /\ pgSndTask = IdleTask /\ pgGenTask = IdleGen
  /\ pgGens = 0

Init ==
  /\ BenchInit /\ ScriptInit /\ ChatInit /\ TopicInit /\ MediaInit
  /\ GuideInit
  /\ localStorage = NoSnapshot /\ now = 0 /\ nextHandle = 1
  /\ inflight = ZeroInflight
  /\ ev = Event("load", 0)

Ready == mount = "ready"

\* the values a Date.now() read can return from here on
Clock == now..MaxClock

\* ------------------------------------------------- mount, restore, reload
\* First render: the restore effect reads the store, then the save effect
\* writes the state of that first render (the useState defaults).
MountEffects ==
  /\ mount = "effects"
  /\ IF localStorage # NoSnapshot /\ localStorage.step # 0
       THEN parsedSaved' = localStorage /\ mount' = "commit"
       ELSE parsedSaved' = NoSnapshot /\ mount' = "ready"
  /\ localStorage' = Snapshot(step, refUrl, userIdea)
  /\ ev' = Event("mount", 0)
  /\ UNCHANGED besidesBench
  /\ UNCHANGED <<step, refUrl, refFile, isAnalyzing, analysisResult,
                 step2ChatSession, step2Messages, step2Typing, userIdea,
                 userFiles, chatSession, messages, isTyping, anaTask, s2Task,
                 imiTask, sndTask, refRead, userReads, now, nextHandle,
                 inflight>>

\* Second render: the state the restore effect set, then the save effect.
RestoreCommit ==
  /\ mount = "commit"
  /\ step' = RestoredStep(parsedSaved)
  /\ refUrl' = OrEmpty(parsedSaved.refUrl)
  /\ userIdea' = OrEmpty(parsedSaved.userIdea)
  /\ localStorage' = SaveEffect(step', refUrl', userIdea', localStorage)
  /\ mount' = "ready"
  /\ parsedSaved' = NoSnapshot
  /\ ev' = EventWith("restore", 0, parsedSaved)
  /\ UNCHANGED besidesBench
  /\ UNCHANGED <<refFile, isAnalyzing, analysisResult, step2ChatSession,
                 step2Messages, step2Typing, userFiles, chatSession, messages,
                 isTyping, anaTask, s2Task, imiTask, sndTask, refRead,
                 userReads, now, nextHandle, inflight>>

\* The page is reloaded: every useState field, handler and stream is gone,
\* the store stays.
Reload ==
  /\ step' = 1 /\ refUrl' = "" /\ refFile' = FALSE /\ isAnalyzing' = FALSE
  /\ analysisResult' = EmptyText
  /\ step2ChatSession' = NoSession /\ step2Messages' = <<>> /\ step2Typing' = FALSE
  /\ userIdea' = "" /\ userFiles' = 0
  /\ chatSession' = NoSession /\ messages' = <<>> /\ isTyping' = FALSE
  /\ anaTask' = "idle" /\ s2Task' = IdleTask /\ imiTask' = IdleTask
  /\ sndTask' = IdleTask /\ refRead' = FALSE /\ userReads' = 0
  /\ mount' = "effects" /\ parsedSaved' = NoSnapshot
  /\ inflight' = ZeroInflight
  /\ ev' = Event("reload", 0)
  /\ UNCHANGED besidesBench
  /\ UNCHANGED <<localStorage, now, nextHandle>>

\* ------------------------------------------------------- step 1: Input
EditRefUrl(u) ==
  /\ Ready /\ step = 1 /\ u # refUrl
  /\ refUrl' = u
  /\ localStorage' = SaveEffect(step, u, userIdea, localStorage)
  /\ ev' = Event("editRefUrl", 0)
  /\ UNCHANGED besidesBench
  /\ UNCHANGED <<step, refFile, isAnalyzing, analysisResult, step2ChatSession,
                 step2Messages, step2Typing, userIdea, userFiles, chatSession,
                 messages, isTyping, anaTask, s2Task, imiTask, sndTask, refRead,
                 userReads, mount, parsedSaved, now, nextHandle, inflight>>

handleRefFileChange(size) ==
  /\ Ready /\ step = 1 /\ ~refRead /\ ~refFile
  /\ refRead' = TRUE
  /\ ev' = EventWith("handleRefFileChange", 0, [size |-> size])
  /\ UNCHANGED besidesBench
  /\ UNCHANGED <<step, refUrl, refFile, isAnalyzing, analysisResult,
                 step2ChatSession, step2Messages, step2Typing, userIdea,
                 userFiles, chatSession, messages, isTyping, anaTask, s2Task,
                 imiTask, sndTask, userReads, mount, parsedSaved, localStorage, now, nextHandle, inflight>>

RefFileLoaded ==
  /\ Ready /\ refRead
  /\ refRead' = FALSE /\ refFile' = TRUE
  /\ ev' = Event("refFileLoaded", 0)
  /\ UNCHANGED besidesBench
  /\ UNCHANGED <<step, refUrl, isAnalyzing, analysisResult, step2ChatSession,
                 step2Messages, step2Typing, userIdea, userFiles, chatSession,
                 messages, isTyping, anaTask, s2Task, imiTask, sndTask,
                 userReads, mount, parsedSaved, localStorage, now,
                 nextHandle, inflight>>

\* C6, faulty variant of analyzeBenchmarkContent: no fallback for empty text
analyzeBenchmarkContentRaw(text) == text

\* return response.text || "分析失败"
analyzeBenchmarkContent(text) ==
  IF text = EmptyText THEN AnalysisFailedText ELSE text

startAnalysis ==
  /\ Ready /\ step = 1 /\ ~isAnalyzing /\ (refUrl # "" \/ refFile)
  /\ isAnalyzing' = TRUE
  /\ anaTask' = "await"
  /\ ev' = Event("startAnalysis", 0)
  /\ UNCHANGED besidesBench
  /\ UNCHANGED <<step, refUrl, refFile, analysisResult, step2ChatSession,
                 step2Messages, step2Typing, userIdea, userFiles, chatSession,
                 messages, isTyping, s2Task, imiTask, sndTask, refRead,
                 userReads, mount, parsedSaved, localStorage, now,
                 nextHandle, inflight>>

\* the await resolved: setAnalysisResult, createBenchmarkChat, setStep(2)
AnalysisResolved(text) ==
  /\ anaTask = "await" /\ nextHandle <= MaxHandles
  /\ analysisResult' = analyzeBenchmarkContent(text)
  /\ step2ChatSession' = nextHandle
  /\ nextHandle' = nextHandle + 1
  /\ step2Messages' = <<Msg(InitId, "model", analysisResult')>>
  /\ step' = 2
  /\ isAnalyzing' = FALSE
  /\ anaTask' = "idle"
  /\ localStorage' = SaveEffect(step', refUrl, userIdea, localStorage)
  /\ ev' = Event("analysisResolved", 0)
  /\ UNCHANGED besidesBench
  /\ UNCHANGED <<refUrl, refFile, step2Typing, userIdea, userFiles,
                 chatSession, messages, isTyping, s2Task, imiTask, sndTask,
                 refRead, userReads, mount, parsedSaved, now, inflight>>

\* the await rejected: alert("分析失败，请检查网络或 Key")
AnalysisRejected ==
  /\ anaTask = "await"
  /\ isAnalyzing' = FALSE
  /\ anaTask' = "idle"
  /\ ev' = Event("analysisRejected", 1)
  /\ UNCHANGED besidesBench
  /\ UNCHANGED <<step, refUrl, refFile, analysisResult, step2ChatSession,
                 step2Messages, step2Typing, userIdea, userFiles, chatSession,
                 messages, isTyping, s2Task, imiTask, sndTask, refRead,
                 userReads, mount, parsedSaved, localStorage, now,
                 nextHandle, inflight>>

\* ------------------------------------- step 2: InteractiveAnalysis (chat)
\* "← 重选": onClick={() => setStep(1)}
GoBackToInput ==
  /\ Ready /\ step = 2
  /\ step' = 1
  /\ localStorage' = SaveEffect(step', refUrl, userIdea, localStorage)
  /\ ev' = Event("goBackToInput", 0)
  /\ UNCHANGED besidesBench
  /\ UNCHANGED <<refUrl, refFile, isAnalyzing, analysisResult, step2ChatSession,
                 step2Messages, step2Typing, userIdea, userFiles, chatSession,
                 messages, isTyping, anaTask, s2Task, imiTask, sndTask, refRead,
                 userReads, mount, parsedSaved, now, nextHandle, inflight>>

\* "下一步：开始仿写 →": onClick={() => setStep(3)}
GoToUserBrief ==
  /\ Ready /\ step = 2
  /\ step' = 3
  /\ localStorage' = SaveEffect(step', refUrl, userIdea, localStorage)
  /\ ev' = Event("goToUserBrief", 0)
  /\ UNCHANGED besidesBench
  /\ UNCHANGED <<refUrl, refFile, isAnalyzing, analysisResult, step2ChatSession,
                 step2Messages, step2Typing, userIdea, userFiles, chatSession,
                 messages, isTyping, anaTask, s2Task, imiTask, sndTask, refRead,
                 userReads, mount, parsedSaved, now, nextHandle, inflight>>

handleStep2Send(txt, t) ==
  /\ Ready /\ step = 2 /\ ~step2Typing /\ step2ChatSession # NoSession
  /\ UserCount(step2Messages) < MaxTurns
  /\ now' = t
  /\ step2Messages' = Append(step2Messages, Msg(t, "user", txt))
  /\ step2Typing' = TRUE
  /\ inflight' = Issue(step2ChatSession)
  /\ s2Task' = TaskOpen(step2ChatSession)
  /\ ev' = Event("handleStep2Send", 0)
  /\ UNCHANGED besidesBench
  /\ UNCHANGED <<step, refUrl, refFile, isAnalyzing, analysisResult,
                 step2ChatSession, userIdea, userFiles, chatSession, messages,
                 isTyping, anaTask, imiTask, sndTask, refRead, userReads, mount,
                 parsedSaved, localStorage, nextHandle>>

\* the stream opened: msgId = (Date.now() + 1), the empty model message
Step2Opened(t) ==
  /\ s2Task.pc = "open"
  /\ now' = t
  /\ step2Messages' = Append(step2Messages, Msg(t + 1, "model", EmptyText))
  /\ s2Task' = TaskStreaming(s2Task, t + 1)
  /\ ev' = Event("step2Opened", 0)
  /\ UNCHANGED besidesBench
  /\ UNCHANGED <<step, refUrl, refFile, isAnalyzing, analysisResult,
                 step2ChatSession, step2Typing, userIdea, userFiles, chatSession,
                 messages, isTyping, anaTask, imiTask, sndTask, refRead,
                 userReads, mount, parsedSaved, localStorage, nextHandle,
                 inflight>>

Step2Fragment(f) ==
  /\ s2Task.pc = "stream" /\ Len(s2Task.delivered) < MaxFrags
  /\ s2Task' = TaskAppend(s2Task, f)
  /\ step2Messages' = SetContentById(step2Messages, s2Task.msgId, s2Task'.fullText)
  /\ ev' = Event("step2Fragment", 0)
  /\ UNCHANGED besidesBench
  /\ UNCHANGED <<step, refUrl, refFile, isAnalyzing, analysisResult,
                 step2ChatSession, step2Typing, userIdea, userFiles, chatSession,
                 messages, isTyping, anaTask, imiTask, sndTask, refRead,
                 userReads, mount, parsedSaved, localStorage, now,
                 nextHandle, inflight>>

\* the stream ended: finally { setStep2Typing(false) }
Step2Complete ==
  /\ s2Task.pc = "stream"
  /\ step2Typing' = FALSE
  /\ inflight' = Settle(s2Task.chat)
  /\ s2Task' = IdleTask
  /\ ev' = Event("step2Complete", 0)
  /\ UNCHANGED besidesBench
  /\ UNCHANGED <<step, refUrl, refFile, isAnalyzing, analysisResult,
                 step2ChatSession, step2Messages, userIdea, userFiles,
                 chatSession, messages, isTyping, anaTask, imiTask, sndTask,
                 refRead, userReads, mount, parsedSaved, localStorage,
                 now, nextHandle>>

\* the open or the stream threw: catch (e) { console.error(e) }
Step2Failed ==
  /\ s2Task.pc \in {"open", "stream"}
  /\ step2Typing' = FALSE
  /\ inflight' = Settle(s2Task.chat)
  /\ s2Task' = IdleTask
  /\ ev' = Event("step2Failed", 0)
  /\ UNCHANGED besidesBench
  /\ UNCHANGED <<step, refUrl, refFile, isAnalyzing, analysisResult,
                 step2ChatSession, step2Messages, userIdea, userFiles,
                 chatSession, messages, isTyping, anaTask, imiTask, sndTask,
                 refRead, userReads, mount, parsedSaved, localStorage,
                 now, nextHandle>>

\* --------------------------------------------------- step 3: UserBrief
\* "← 返回讨论": onClick={() => setStep(2)}
GoBackToAnalysis ==
  /\ Ready /\ step = 3
  /\ step' = 2
  /\ localStorage' = SaveEffect(step', refUrl, userIdea, localStorage)
  /\ ev' = Event("goBackToAnalysis", 0)
  /\ UNCHANGED besidesBench
  /\ UNCHANGED <<refUrl, refFile, isAnalyzing, analysisResult, step2ChatSession,
                 step2Messages, step2Typing, userIdea, userFiles, chatSession,
                 messages, isTyping, anaTask, s2Task, imiTask, sndTask, refRead,
                 userReads, mount, parsedSaved, now, nextHandle, inflight>>

EditUserIdea(i) ==
  /\ Ready /\ step = 3 /\ i # userIdea
  /\ userIdea' = i
  /\ localStorage' = SaveEffect(step, refUrl, i, localStorage)
  /\ ev' = Event("editUserIdea", 0)
  /\ UNCHANGED besidesBench
  /\ UNCHANGED <<step, refUrl, refFile, isAnalyzing, analysisResult,
                 step2ChatSession, step2Messages, step2Typing, userFiles,
                 chatSession, messages, isTyping, anaTask, s2Task, imiTask,
                 sndTask, refRead, userReads, mount, parsedSaved, now,
                 nextHandle, inflight>>

handleUserFilesChange(size) ==
  /\ Ready /\ step = 3 /\ userFiles + userReads < MaxFiles
  /\ userReads' = userReads + 1
  /\ ev' = EventWith("handleUserFilesChange", 0, [size |-> size])
  /\ UNCHANGED besidesBench
  /\ UNCHANGED <<step, refUrl, refFile, isAnalyzing, analysisResult,
                 step2ChatSession, step2Messages, step2Typing, userIdea,
                 userFiles, chatSession, messages, isTyping, anaTask, s2Task,
                 imiTask, sndTask, refRead, mount, parsedSaved, localStorage, now, nextHandle, inflight>>

\* reader.onload: setUserFiles(prev => [...prev, { ..., uploadStatus: 'success' }])
UserFileLoaded ==
  /\ Ready /\ userReads > 0
  /\ userReads' = userReads - 1
  /\ userFiles' = userFiles + 1
  /\ ev' = Event("userFileLoaded", 0)
  /\ UNCHANGED besidesBench
  /\ UNCHANGED <<step, refUrl, refFile, isAnalyzing, analysisResult,
                 step2ChatSession, step2Messages, step2Typing, userIdea,
                 chatSession, messages, isTyping, anaTask, s2Task, imiTask,
                 sndTask, refRead, mount, parsedSaved, localStorage, now,
                 nextHandle, inflight>>

\* createImitationSession: ai.chats.create, then chat.sendMessageStream
startImitation ==
  /\ Ready /\ step = 3 /\ ~isAnalyzing /\ nextHandle <= MaxHandles
  /\ isAnalyzing' = TRUE
  /\ nextHandle' = nextHandle + 1
  /\ inflight' = Issue(nextHandle)
  /\ imiTask' = TaskOpen(nextHandle)
  /\ ev' = Event("startImitation", 0)
  /\ UNCHANGED besidesBench
  /\ UNCHANGED <<step, refUrl, refFile, analysisResult, step2ChatSession,
                 step2Messages, step2Typing, userIdea, userFiles, chatSession,
                 messages, isTyping, anaTask, s2Task, sndTask, refRead,
                 userReads, mount, parsedSaved, localStorage, now>>

\* the session opened: setChatSession(chat); setStep(4); setMessages([...])
ImitationOpened(t) ==
  /\ imiTask.pc = "open"
  /\ now' = t
  /\ chatSession' = imiTask.chat
  /\ step' = 4
  /\ messages' = <<Msg(t, "model", EmptyText)>>
  /\ imiTask' = TaskStreaming(imiTask, t)
  /\ localStorage' = SaveEffect(step', refUrl, userIdea, localStorage)
  /\ ev' = Event("imitationOpened", 0)
  /\ UNCHANGED besidesBench
  /\ UNCHANGED <<refUrl, refFile, isAnalyzing, analysisResult, step2ChatSession,
                 step2Messages, step2Typing, userIdea, userFiles, isTyping,
                 anaTask, s2Task, sndTask, refRead, userReads, mount,
                 parsedSaved, nextHandle, inflight>>

ImitationFragment(f) ==
  /\ imiTask.pc = "stream" /\ Len(imiTask.delivered) < MaxFrags
  /\ imiTask' = TaskAppend(imiTask, f)
  /\ messages' = SetContentById(messages, imiTask.msgId, imiTask'.fullText)
  /\ ev' = Event("imitationFragment", 0)
  /\ UNCHANGED besidesBench
  /\ UNCHANGED <<step, refUrl, refFile, isAnalyzing, analysisResult,
                 step2ChatSession, step2Messages, step2Typing, userIdea,
                 userFiles, chatSession, isTyping, anaTask, s2Task, sndTask,
                 refRead, userReads, mount, parsedSaved, localStorage,
                 now, nextHandle, inflight>>

ImitationComplete ==
  /\ imiTask.pc = "stream"
  /\ isAnalyzing' = FALSE
  /\ inflight' = Settle(imiTask.chat)
  /\ imiTask' = IdleTask
  /\ ev' = Event("imitationComplete", 0)
  /\ UNCHANGED besidesBench
  /\ UNCHANGED <<step, refUrl, refFile, analysisResult, step2ChatSession,
                 step2Messages, step2Typing, userIdea, userFiles, chatSession,
                 messages, isTyping, anaTask, s2Task, sndTask, refRead,
                 userReads, mount, parsedSaved, localStorage, now,
                 nextHandle>>

\* the open or the stream threw: alert("生成指南失败")
ImitationFailed ==
  /\ imiTask.pc \in {"open", "stream"}
  /\ isAnalyzing' = FALSE
  /\ inflight' = Settle(imiTask.chat)
  /\ imiTask' = IdleTask
  /\ ev' = Event(IF imiTask.pc = "open" THEN "imitationOpenFailed"
                                        ELSE "imitationStreamFailed", 1)
  /\ UNCHANGED besidesBench
  /\ UNCHANGED <<step, refUrl, refFile, analysisResult, step2ChatSession,
                 step2Messages, step2Typing, userIdea, userFiles, chatSession,
                 messages, isTyping, anaTask, s2Task, sndTask, refRead,
                 userReads, mount, parsedSaved, localStorage, now,
                 nextHandle>>

\* ------------------------------------------------ step 4: ImitationGuide
sendMessage(txt, t) ==
  /\ Ready /\ step = 4 /\ ~isTyping /\ chatSession # NoSession
  /\ UserCount(messages) < MaxTurns
  /\ now' = t
  /\ messages' = Append(messages, Msg(t, "user", txt))
  /\ isTyping' = TRUE
  /\ inflight' = Issue(chatSession)
  /\ sndTask' = TaskOpen(chatSession)
  /\ ev' = Event("sendMessage", 0)
  /\ UNCHANGED besidesBench
  /\ UNCHANGED <<step, refUrl, refFile, isAnalyzing, analysisResult,
                 step2ChatSession, step2Messages, step2Typing, userIdea,
                 userFiles, chatSession, anaTask, s2Task, imiTask, refRead,
                 userReads, mount, parsedSaved, localStorage, nextHandle>>

SendOpened(t) ==
  /\ sndTask.pc = "open"
  /\ now' = t
  /\ messages' = Append(messages, Msg(t + 1, "model", EmptyText))
  /\ sndTask' = TaskStreaming(sndTask, t + 1)
  /\ ev' = Event("sendOpened", 0)
  /\ UNCHANGED besidesBench
  /\ UNCHANGED <<step, refUrl, refFile, isAnalyzing, analysisResult,
                 step2ChatSession, step2Messages, step2Typing, userIdea,
                 userFiles, chatSession, isTyping, anaTask, s2Task, imiTask,
                 refRead, userReads, mount, parsedSaved, localStorage,
                 nextHandle, inflight>>

SendFragment(f) ==
  /\ sndTask.pc = "stream" /\ Len(sndTask.delivered) < MaxFrags
  /\ sndTask' = TaskAppend(sndTask, f)
  /\ messages' = SetContentById(messages, sndTask.msgId, sndTask'.fullText)
  /\ ev' = Event("sendFragment", 0)
  /\ UNCHANGED besidesBench
  /\ UNCHANGED <<step, refUrl, refFile, isAnalyzing, analysisResult,
                 step2ChatSession, step2Messages, step2Typing, userIdea,
                 userFiles, chatSession, isTyping, anaTask, s2Task, imiTask,
                 refRead, userReads, mount, parsedSaved, localStorage,
                 now, nextHandle, inflight>>

SendComplete ==
  /\ sndTask.pc = "stream"
  /\ isTyping' = FALSE
  /\ inflight' = Settle(sndTask.chat)
  /\ sndTask' = IdleTask
  /\ ev' = Event("sendComplete", 0)
  /\ UNCHANGED besidesBench
  /\ UNCHANGED <<step, refUrl, refFile, isAnalyzing, analysisResult,
                 step2ChatSession, step2Messages, step2Typing, userIdea,
                 userFiles, chatSession, messages, anaTask, s2Task, imiTask,
                 refRead, userReads, mount, parsedSaved, localStorage,
                 now, nextHandle>>

\* C23, faulty variant of SendFailed: the catch branch drops the handle
SendFailedDropsSession ==
  /\ sndTask.pc \in {"open", "stream"}
  /\ isTyping' = FALSE
  /\ chatSession' = NoSession
  /\ inflight' = Settle(sndTask.chat)
  /\ sndTask' = IdleTask
  /\ ev' = EventWith(IF sndTask.pc = "open" THEN "sendOpenFailed"
                                            ELSE "sendStreamFailed", 0, sndTask)
  /\ UNCHANGED besidesBench
  /\ UNCHANGED <<step, refUrl, refFile, isAnalyzing, analysisResult,
                 step2ChatSession, step2Messages, step2Typing, userIdea,
                 userFiles, messages, anaTask, s2Task, imiTask, refRead,
                 userReads, mount, parsedSaved, localStorage, now,
                 nextHandle>>

\* the open or the stream threw: catch (e) { console.error(e) }
SendFailed ==
  /\ sndTask.pc \in {"open", "stream"}
  /\ isTyping' = FALSE
  /\ inflight' = Settle(sndTask.chat)
  /\ sndTask' = IdleTask
  /\ ev' = EventWith(IF sndTask.pc = "open" THEN "sendOpenFailed"
                                            ELSE "sendStreamFailed", 0, sndTask)
  /\ UNCHANGED besidesBench
  /\ UNCHANGED <<step, refUrl, refFile, isAnalyzing, analysisResult,
                 step2ChatSession, step2Messages, step2Typing, userIdea,
                 userFiles, chatSession, messages, anaTask, s2Task, imiTask,
                 refRead, userReads, mount, parsedSaved, localStorage,
                 now, nextHandle>>

\* "结束会话" (rendered in step 4 only), confirmed by the user
resetAll ==
  /\ Ready /\ step = 4
  /\ step' = 1
  /\ refUrl' = ""
  /\ refFile' = FALSE
  /\ analysisResult' = EmptyText
  /\ userIdea' = ""
  /\ userFiles' = 0
  /\ messages' = <<>>
  /\ step2Messages' = <<>>
  /\ step2ChatSession' = NoSession
  /\ localStorage' = SaveEffect(step', refUrl', userIdea', NoSnapshot)
  /\ ev' = Event("resetAll", 0)
  /\ UNCHANGED besidesBench
  /\ UNCHANGED <<isAnalyzing, step2Typing, chatSession, isTyping, anaTask,
                 s2Task, imiTask, sndTask, refRead, userReads, mount,
                 parsedSaved, now, nextHandle, inflight>>

\* ------------------------------------------------------- specification
Next ==
  \/ MountEffects \/ RestoreCommit \/ Reload
  \/ \E u \in Urls : EditRefUrl(u)
  \/ \E size \in FileSizes : handleRefFileChange(size)
  \/ RefFileLoaded
  \/ startAnalysis \/ AnalysisRejected
  \/ \E text \in ProviderTexts : AnalysisResolved(text)
  \/ GoBackToInput \/ GoToUserBrief \/ GoBackToAnalysis
  \/ \E txt \in UserTexts, t \in Clock : handleStep2Send(txt, t)
  \/ \E t \in Clock : Step2Opened(t)
  \/ \E f \in Frags : Step2Fragment(f)
  \/ Step2Complete \/ Step2Failed
  \/ \E i \in Ideas : EditUserIdea(i)
  \/ \E size \in FileSizes : handleUserFilesChange(size)
  \/ UserFileLoaded
  \/ startImitation
  \/ \E t \in Clock : ImitationOpened(t)
  \/ \E f \in Frags : ImitationFragment(f)
  \/ ImitationComplete \/ ImitationFailed
  \/ \E txt \in UserTexts, t \in Clock : sendMessage(txt, t)
  \/ \E t \in Clock : SendOpened(t)
  \/ \E f \in Frags : SendFragment(f)
  \/ SendComplete \/ SendFailed
  \/ resetAll

Spec == Init /\ [][Next]_vars

\* ================================================= ScriptWriter (chat)
EditTopic(tp) ==
  /\ swStep = 1 /\ tp # swTopic
  /\ swTopic' = tp
  /\ ev' = Event("editTopic", 0)
  /\ UNCHANGED besidesScript
  /\ UNCHANGED <<swStep, swLoading, swChatSession, swMessages, swGenTask,
                 swSndTask, now, nextHandle, inflight>>

\* setLoading(true); setStep(2); setMessages([]); then the session is opened
handleGenerate ==
  /\ swStep = 1 /\ ~swLoading /\ swTopic # "" /\ nextHandle <= MaxHandles
  /\ swLoading' = TRUE
  /\ swStep' = 2
  /\ swMessages' = <<>>
  /\ nextHandle' = nextHandle + 1
  /\ inflight' = Issue(nextHandle)
  /\ swGenTask' = TaskOpen(nextHandle)
  /\ ev' = Event("handleGenerate", 0)
  /\ UNCHANGED besidesScript
  /\ UNCHANGED <<swTopic, swChatSession, swSndTask, now>>

\* createScriptWriterSession resolved: setChatSession(chat); setMessages([...])
GenerateOpened(t) ==
  /\ swGenTask.pc = "open"
  /\ now' = t
  /\ swChatSession' = swGenTask.chat
  /\ swMessages' = <<Msg(t, "model", EmptyText)>>
  /\ swGenTask' = TaskStreaming(swGenTask, t)
  /\ ev' = Event("generateOpened", 0)
  /\ UNCHANGED besidesScript
  /\ UNCHANGED <<swStep, swTopic, swLoading, swSndTask, nextHandle, inflight>>

GenerateFragment(f) ==
  /\ swGenTask.pc = "stream" /\ Len(swGenTask.delivered) < MaxFrags
  /\ swGenTask' = TaskAppend(swGenTask, f)
  /\ swMessages' = SetContentById(swMessages, swGenTask.msgId, swGenTask'.fullText)
  /\ ev' = Event("generateFragment", 0)
  /\ UNCHANGED besidesScript
  /\ UNCHANGED <<swStep, swTopic, swLoading, swChatSession, swSndTask, now,
                 nextHandle, inflight>>

GenerateComplete ==
  /\ swGenTask.pc = "stream"
  /\ swLoading' = FALSE
  /\ inflight' = Settle(swGenTask.chat)
  /\ swGenTask' = IdleTask
  /\ ev' = Event("generateComplete", 0)
  /\ UNCHANGED besidesScript
  /\ UNCHANGED <<swStep, swTopic, swChatSession, swMessages, swSndTask, now,
                 nextHandle>>

\* catch: the failure text is appended as a model message; the step stays
GenerateFailed(t) ==
  /\ swGenTask.pc \in {"open", "stream"}
  /\ now' = t
  /\ swMessages' = Append(swMessages, Msg(t, "model", GenerateFailedText))
  /\ swLoading' = FALSE
  /\ inflight' = Settle(swGenTask.chat)
  /\ swGenTask' = IdleTask
  /\ ev' = EventWith(IF swGenTask.pc = "open" THEN "generateOpenFailed"
                                              ELSE "generateStreamFailed",
                     1, swGenTask)
  /\ UNCHANGED besidesScript
  /\ UNCHANGED <<swStep, swTopic, swChatSession, swSndTask, nextHandle>>

handleSendMessage(txt, t) ==
  /\ swStep = 2 /\ ~swLoading /\ swChatSession # NoSession
  /\ UserCount(swMessages) < MaxTurns
  /\ now' = t
  /\ swMessages' = Append(swMessages, Msg(t, "user", txt))
  /\ swLoading' = TRUE
  /\ inflight' = Issue(swChatSession)
  /\ swSndTask' = TaskOpen(swChatSession)
  /\ ev' = Event("handleSendMessage", 0)
  /\ UNCHANGED besidesScript
  /\ UNCHANGED <<swStep, swTopic, swChatSession, swGenTask, nextHandle>>

ScriptSendOpened(t) ==
  /\ swSndTask.pc = "open"
  /\ now' = t
  /\ swMessages' = Append(swMessages, Msg(t + 1, "model", EmptyText))
  /\ swSndTask' = TaskStreaming(swSndTask, t + 1)
  /\ ev' = Event("scriptSendOpened", 0)
  /\ UNCHANGED besidesScript
  /\ UNCHANGED <<swStep, swTopic, swLoading, swChatSession, swGenTask,
                 nextHandle, inflight>>

ScriptSendFragment(f) ==
  /\ swSndTask.pc = "stream" /\ Len(swSndTask.delivered) < MaxFrags
  /\ swSndTask' = TaskAppend(swSndTask, f)
  /\ swMessages' = SetContentById(swMessages, swSndTask.msgId, swSndTask'.fullText)
  /\ ev' = Event("scriptSendFragment", 0)
  /\ UNCHANGED besidesScript
  /\ UNCHANGED <<swStep, swTopic, swLoading, swChatSession, swGenTask, now,
                 nextHandle, inflight>>

ScriptSendComplete ==
  /\ swSndTask.pc = "stream"
  /\ swLoading' = FALSE
  /\ inflight' = Settle(swSndTask.chat)
  /\ swSndTask' = IdleTask
  /\ ev' = Event("scriptSendComplete", 0)
  /\ UNCHANGED besidesScript
  /\ UNCHANGED <<swStep, swTopic, swChatSession, swMessages, swGenTask, now,
                 nextHandle>>

\* catch (e) { console.error(e) }
ScriptSendFailed ==
  /\ swSndTask.pc \in {"open", "stream"}
  /\ swLoading' = FALSE
  /\ inflight' = Settle(swSndTask.chat)
  /\ swSndTask' = IdleTask
  /\ ev' = Event("scriptSendFailed", 0)
  /\ UNCHANGED besidesScript
  /\ UNCHANGED <<swStep, swTopic, swChatSession, swMessages, swGenTask, now,
                 nextHandle>>

\* "← 返回修改" / "新创作", confirmed by the user
handleReset ==
  /\ swStep = 2
  /\ swStep' = 1
  /\ swMessages' = <<>>
  /\ swChatSession' = NoSession
  /\ ev' = Event("handleReset", 0)
  /\ UNCHANGED besidesScript
  /\ UNCHANGED <<swTopic, swLoading, swGenTask, swSndTask, now, nextHandle,
                 inflight>>

ScriptNext ==
  \/ \E tp \in Topics : EditTopic(tp)
  \/ handleGenerate
  \/ \E t \in Clock : GenerateOpened(t)
  \/ \E f \in Frags : GenerateFragment(f)
  \/ GenerateComplete
  \/ \E t \in Clock : GenerateFailed(t)
  \/ \E txt \in UserTexts, t \in Clock : handleSendMessage(txt, t)
  \/ \E t \in Clock : ScriptSendOpened(t)
  \/ \E f \in Frags : ScriptSendFragment(f)
  \/ ScriptSendComplete \/ ScriptSendFailed
  \/ handleReset

SpecScript == Init /\ [][ScriptNext]_vars

\* ======================================================== AssistantChat
ChatMsg(role, text) == [role |-> role, text |-> text]

\* useEffect(() => { if (messages.length > 0) localStorage.setItem(...) },
\* [messages]); `base` is the store as the handler itself left it
ChatSave(list, base) == IF Len(list) > 0 THEN list ELSE base

ChatUserCount(list) == Cardinality({i \in DOMAIN list : list[i].role = "user"})

\* lastMsg = newHistory[newHistory.length - 1];
\* if (lastMsg.role === 'model') lastMsg.text = fullResponse
WriteLast(list, text) ==
  IF list[Len(list)].role = "model"
    THEN [list EXCEPT ![Len(list)].text = text]
    ELSE list

\* mount: the stored history, or the greeting
AssistantMount ==
  /\ ~acMounted
  /\ acMounted' = TRUE
  /\ acMessages' = IF acStore # NoHistory THEN acStore ELSE <<Greeting>>
  /\ acStore' = ChatSave(acMessages', acStore)
  /\ ev' = Event("assistantMount", 0)
  /\ UNCHANGED besidesChat
  /\ UNCHANGED <<acIsTyping, acTasks, now>>

\* chatWithAssistant(history, newMessage): ai.chats.create({ history }),
\* then chat.sendMessageStream({ message: newMessage }); what the provider
\* receives
chatWithAssistant(history, newMessage) ==
  [history |-> history, message |-> newMessage]

\* the send button is disabled only by an empty input; history is
\* messages.map(...) over the list of the render that ran the handler
handleSend(k, txt) ==
  /\ acMounted /\ acTasks[k].pc = "idle"
  /\ \A j \in ChatSlots : j < k => acTasks[j].pc # "idle"
  /\ ChatUserCount(acMessages) < MaxChatSends
  /\ acMessages' = Append(acMessages, ChatMsg("user", txt))
  /\ acIsTyping' = TRUE
  /\ acTasks' = [acTasks EXCEPT ![k] = [IdleChatTask EXCEPT !.pc = "open"]]
  /\ acStore' = ChatSave(acMessages', acStore)
  /\ ev' = EventWith("handleSend", 0, chatWithAssistant(acMessages, txt))
  /\ UNCHANGED besidesChat
  /\ UNCHANGED <<acMounted, now>>

\* chatWithAssistant resolved: the empty model message is appended
ChatOpened(k) ==
  /\ acTasks[k].pc = "open"
  /\ acMessages' = Append(acMessages, ChatMsg("model", EmptyText))
  /\ acTasks' = [acTasks EXCEPT ![k].pc = "stream", ![k].at = Len(acMessages')]
  /\ acStore' = ChatSave(acMessages', acStore)
  /\ ev' = Event("chatOpened", 0)
  /\ UNCHANGED besidesChat
  /\ UNCHANGED <<acMounted, acIsTyping, now>>

ChatFragment(k, f) ==
  /\ acTasks[k].pc = "stream" /\ Len(acTasks[k].delivered) < MaxFrags
  /\ acTasks' = [acTasks EXCEPT ![k].fullResponse = @ \o f,
                                ![k].delivered = Append(@, f)]
  /\ acMessages' = WriteLast(acMessages, acTasks'[k].fullResponse)
  /\ acStore' = ChatSave(acMessages', acStore)
  /\ ev' = Event("chatFragment", 0)
  /\ UNCHANGED besidesChat
  /\ UNCHANGED <<acMounted, acIsTyping, now>>

\* the stream ended: finally { setIsTyping(false) }
ChatComplete(k) ==
  /\ acTasks[k].pc = "stream"
  /\ acIsTyping' = FALSE
  /\ acTasks' = [acTasks EXCEPT ![k] = IdleChatTask]
  /\ ev' = EventWith("chatComplete", 0, acTasks[k])
  /\ UNCHANGED besidesChat
  /\ UNCHANGED <<acMounted, acMessages, acStore, now>>

\* catch: the apology is appended as one more model message
ChatFailed(k) ==
  /\ acTasks[k].pc \in {"open", "stream"}
  /\ acMessages' = Append(acMessages, ChatMsg("model", ApologyText))
  /\ acIsTyping' = FALSE
  /\ acTasks' = [acTasks EXCEPT ![k] = IdleChatTask]
  /\ acStore' = ChatSave(acMessages', acStore)
  /\ ev' = EventWith("chatFailed", 1, acTasks[k])
  /\ UNCHANGED besidesChat
  /\ UNCHANGED <<acMounted, now>>

\* setMessages([greeting]); localStorage.removeItem(...); the messages of the
\* streams still in flight are gone from the list
clearChat ==
  /\ acMounted
  /\ acMessages' = <<Greeting>>
  /\ acStore' = ChatSave(acMessages', NoHistory)
  /\ acTasks' = [k \in ChatSlots |-> [acTasks[k] EXCEPT !.at = 0]]
  /\ ev' = Event("clearChat", 0)
  /\ UNCHANGED besidesChat
  /\ UNCHANGED <<acMounted, acIsTyping, now>>

\* the page is reloaded: the component state and its streams are gone
ChatReload ==
  /\ acMounted
  /\ acMounted' = FALSE
  /\ acMessages' = <<>>
  /\ acIsTyping' = FALSE
  /\ acTasks' = [k \in ChatSlots |-> IdleChatTask]
  /\ ev' = Event("chatReload", 0)
  /\ UNCHANGED besidesChat
  /\ UNCHANGED <<acStore, now>>

ChatNext ==
  \/ AssistantMount
  \/ \E k \in ChatSlots, txt \in UserTexts : handleSend(k, txt)
  \/ \E k \in ChatSlots : ChatOpened(k)
  \/ \E k \in ChatSlots, f \in Frags : ChatFragment(k, f)
  \/ \E k \in ChatSlots : ChatComplete(k)
  \/ \E k \in ChatSlots : ChatFailed(k)
  \/ clearChat
  \/ ChatReload

SpecChat == Init /\ [][ChatNext]_vars

\* ========================================================== TopicFinder
\* processFileList: { id, file, uploadStatus: 'pending', uploadProgress: 0 }
PendingFile(id) == [id |-> id, uploadStatus |-> "pending", base64 |-> Undefined]

\* a file above the ceiling is skipped with an alert
processFileList(id, size) ==
  IF size > MaxFileBytes THEN <<>> ELSE <<PendingFile(id)>>

\* reader.onload: prev.map(f => f.id === fileData.id ? { ...f, base64,
\* uploadStatus: 'success', uploadProgress: 100 } : f)
readFileContent(list, id) ==
  [i \in DOMAIN list |->
     IF list[i].id = id
       THEN [list[i] EXCEPT !.base64 = Payload, !.uploadStatus = "success"]
       ELSE list[i]]

RemoveById(list, id) == SelectSeq(list, LAMBDA f : f.id # id)

TextPart(t) == [kind |-> "text", data |-> t]
MediaPart(f) == [kind |-> "media", data |-> f.base64]
MediaParts(list) == [i \in DOMAIN list |-> MediaPart(list[i])]

\* researchTopics: benchmark files, then context files, then the prompt
researchTopics(context, benchmark) ==
  (IF Len(benchmark) > 0
     THEN <<TextPart("benchmark-header")>> \o MediaParts(benchmark) ELSE <<>>)
  \o (IF Len(context) > 0
        THEN <<TextPart("context-header")>> \o MediaParts(context) ELSE <<>>)
  \o <<TextPart("prompt")>>

FileIds(list) == {list[i].id : i \in DOMAIN list}

handleRefFilesChange(size) ==
  /\ Len(tfRefFiles) < MaxFiles /\ tfNextId <= MaxFileIds
  /\ tfRefFiles' = tfRefFiles \o processFileList(tfNextId, size)
  /\ tfNextId' = tfNextId + 1
  /\ ev' = Event("handleRefFilesChange", IF size > MaxFileBytes THEN 1 ELSE 0)
  /\ UNCHANGED besidesTopic
  /\ UNCHANGED <<tfBenchmarkFiles, tfLoading, tfError, tfResults, tfRequest>>

handleBenchmarkFilesChange(size) ==
  /\ Len(tfBenchmarkFiles) < MaxFiles /\ tfNextId <= MaxFileIds
  /\ tfBenchmarkFiles' = tfBenchmarkFiles \o processFileList(tfNextId, size)
  /\ tfNextId' = tfNextId + 1
  /\ ev' = Event("handleBenchmarkFilesChange",
                 IF size > MaxFileBytes THEN 1 ELSE 0)
  /\ UNCHANGED besidesTopic
  /\ UNCHANGED <<tfRefFiles, tfLoading, tfError, tfResults, tfRequest>>

RefFileRead(id) ==
  /\ \E i \in DOMAIN tfRefFiles :
       tfRefFiles[i].id = id /\ tfRefFiles[i].uploadStatus = "pending"
  /\ tfRefFiles' = readFileContent(tfRefFiles, id)
  /\ ev' = Event("refFileRead", 0)
  /\ UNCHANGED besidesTopic
  /\ UNCHANGED <<tfBenchmarkFiles, tfLoading, tfError, tfResults, tfRequest,
                 tfNextId>>

BenchmarkFileRead(id) ==
  /\ \E i \in DOMAIN tfBenchmarkFiles :
       tfBenchmarkFiles[i].id = id
       /\ tfBenchmarkFiles[i].uploadStatus = "pending"
  /\ tfBenchmarkFiles' = readFileContent(tfBenchmarkFiles, id)
  /\ ev' = Event("benchmarkFileRead", 0)
  /\ UNCHANGED besidesTopic
  /\ UNCHANGED <<tfRefFiles, tfLoading, tfError, tfResults, tfRequest,
                 tfNextId>>

\* setRefFiles(p => p.filter(x => x.id !== id))
removeRefFile(id) ==
  /\ id \in FileIds(tfRefFiles)
  /\ tfRefFiles' = RemoveById(tfRefFiles, id)
  /\ ev' = Event("removeRefFile", 0)
  /\ UNCHANGED besidesTopic
  /\ UNCHANGED <<tfBenchmarkFiles, tfLoading, tfError, tfResults, tfRequest,
                 tfNextId>>

removeBenchmarkFile(id) ==
  /\ id \in FileIds(tfBenchmarkFiles)
  /\ tfBenchmarkFiles' = RemoveById(tfBenchmarkFiles, id)
  /\ ev' = Event("removeBenchmarkFile", 0)
  /\ UNCHANGED besidesTopic
  /\ UNCHANGED <<tfRefFiles, tfLoading, tfError, tfResults, tfRequest,
                 tfNextId>>

\* setLoading(true); setError(''); the payloads are mapped from every file
\* of both lists; then the request is sent
fetchTopics ==
  /\ tfLoading' = TRUE
  /\ tfError' = FALSE
  /\ tfRequest' = researchTopics(tfRefFiles, tfBenchmarkFiles)
  /\ UNCHANGED besidesTopic
  /\ UNCHANGED <<tfRefFiles, tfBenchmarkFiles, tfNextId>>

\* the form's submit: setResults([]); fetchTopics(0)
handleSearch ==
  /\ ~tfLoading
  /\ tfResults' = FALSE
  /\ fetchTopics
  /\ ev' = Event("handleSearch", 0)

\* "换一批": shown once there are results
handleSwapBatch ==
  /\ ~tfLoading /\ tfResults
  /\ tfResults' = tfResults
  /\ fetchTopics
  /\ ev' = Event("handleSwapBatch", 0)

\* setResults(data): data may be the empty array
ResearchResolved(some) ==
  /\ tfLoading
  /\ tfResults' = some
  /\ tfLoading' = FALSE
  /\ ev' = Event("researchResolved", 0)
  /\ UNCHANGED besidesTopic
  /\ UNCHANGED <<tfRefFiles, tfBenchmarkFiles, tfError, tfRequest, tfNextId>>

\* setError('获取选题失败，请检查 API Key 并重试。')
ResearchRejected ==
  /\ tfLoading
  /\ tfError' = TRUE
  /\ tfLoading' = FALSE
  /\ ev' = Event("researchRejected", 1)
  /\ UNCHANGED besidesTopic
  /\ UNCHANGED <<tfRefFiles, tfBenchmarkFiles, tfResults, tfRequest, tfNextId>>

TopicNext ==
  \/ \E size \in FileSizes : handleRefFilesChange(size)
  \/ \E size \in FileSizes : handleBenchmarkFilesChange(size)
  \/ \E id \in 1..MaxFileIds : RefFileRead(id)
  \/ \E id \in 1..MaxFileIds : BenchmarkFileRead(id)
  \/ \E id \in 1..MaxFileIds : removeRefFile(id)
  \/ \E id \in 1..MaxFileIds : removeBenchmarkFile(id)
  \/ handleSearch \/ handleSwapBatch
  \/ ResearchResolved(TRUE) \/ ResearchResolved(FALSE)
  \/ ResearchRejected

SpecTopic == Init /\ [][TopicNext]_vars

\* ======================================================== MediaAnalyzer
\* FileData: { id, file, uploadStatus, uploadProgress, base64? }; `size`
\* stands for the File object the record keeps
PendingMedia(id, size) ==
  [id |-> id, size |-> size, uploadStatus |-> "pending", uploadProgress |-> 0,
   base64 |-> Undefined]

\* (reader.result as string).split(',')[1]: the text after the comma of the
\* data URL, which is the empty string for a file of no bytes
EmptyPayload == ""
Base64Of(size) == IF size = 0 THEN EmptyPayload ELSE Payload

\* sizes a picked file can have: no bytes, the ceiling, one byte above it
MediaSizes == {0} \cup FileSizes

\* prev.map(f => f.id === id ? { ...f, uploadStatus, uploadProgress } : f)
updateFileStatus(list, id, status, progress) ==
  [i \in DOMAIN list |->
     IF list[i].id = id
       THEN [list[i] EXCEPT !.uploadStatus = status, !.uploadProgress = progress]
       ELSE list[i]]

\* C15, faulty variant of processFileOnload: the last percentage reported
\* by onprogress is kept instead of 100
processFileOnloadKeepsProgress(list, id) ==
  [i \in DOMAIN list |->
     IF list[i].id = id
       THEN [list[i] EXCEPT !.base64 = Base64Of(list[i].size),
                            !.uploadStatus = "success"]
       ELSE list[i]]

\* C13, faulty variant of processFileOnload: the payload is stored while the
\* status is left as it was
processFileOnloadKeepsStatus(list, id) ==
  [i \in DOMAIN list |->
     IF list[i].id = id
       THEN [list[i] EXCEPT !.base64 = Base64Of(list[i].size),
                            !.uploadProgress = 100]
       ELSE list[i]]

\* C28, faulty variant of processFileOnload: the id test is dropped, every
\* listed file is marked Ready
processFileOnloadEveryFile(list, id) ==
  [i \in DOMAIN list |->
     [list[i] EXCEPT !.base64 = Base64Of(list[i].size),
                     !.uploadStatus = "success",
                     !.uploadProgress = 100]]

\* processFile, reader.onload: base64, 'success' and 100 are set together
processFileOnload(list, id) ==
  [i \in DOMAIN list |->
     IF list[i].id = id
       THEN [list[i] EXCEPT !.base64 = Base64Of(list[i].size),
                            !.uploadStatus = "success",
                            !.uploadProgress = 100]
       ELSE list[i]]

\* processFile, reader.onerror: updateFileStatus(fileData.id, 'error', 0)
processFileOnerror(list, id) == updateFileStatus(list, id, "error", 0)

MediaIds == 1..MaxMediaFiles
Reading(id) ==
  \E i \in DOMAIN maFiles :
    maFiles[i].id = id /\ maFiles[i].uploadStatus = "uploading"
FileById(id) == maFiles[CHOOSE i \in DOMAIN maFiles : maFiles[i].id = id]

\* the "开始诊断" button: disabled={files.length === 0 ||
\* files.some(f => f.uploadStatus !== 'success') || analysisProgress > 0}
CanStartAudit ==
  /\ Len(maFiles) # 0
  /\ \A i \in DOMAIN maFiles : maFiles[i].uploadStatus = "success"
  /\ ~(maAnalysisProgress > 0)

\* the values the simulated progress bar passes through before the reply
AuditPercents == {50, 95}

\* a file above the ceiling is skipped with an alert; any other file joins
\* the list and processFile starts its read at once ('uploading', 0)
handleFileChange(size) ==
  /\ maPhase = "upload" /\ maNextId <= MaxMediaFiles
  /\ IF size > MaxFileBytes
       THEN /\ UNCHANGED <<maFiles, maNextId>>
            /\ ev' = EventWith("handleFileChange", 1, [size |-> size])
       ELSE /\ maFiles' = updateFileStatus(
                            Append(maFiles, PendingMedia(maNextId, size)),
                            maNextId, "uploading", 0)
            /\ maNextId' = maNextId + 1
            /\ ev' = EventWith("handleFileChange", 0, [size |-> size])
  /\ UNCHANGED besidesMedia
  /\ UNCHANGED <<maPhase, maChatSession, maMessages, maIsTyping,
                 maAnalysisProgress, maAuditTask, maSndTask, now, nextHandle,
                 inflight>>

\* reader.onprogress with lengthComputable: Math.round(loaded / total * 100)
ReaderProgress(id, p) ==
  /\ Reading(id) /\ FileById(id).size > 0 /\ p > FileById(id).uploadProgress
  /\ maFiles' = updateFileStatus(maFiles, id, "uploading", p)
  /\ ev' = Event("readerProgress", 0)
  /\ UNCHANGED besidesMedia
  /\ UNCHANGED <<maPhase, maChatSession, maMessages, maIsTyping,
                 maAnalysisProgress, maAuditTask, maSndTask, maNextId, now,
                 nextHandle, inflight>>

ReaderLoad(id) ==
  /\ Reading(id)
  /\ maFiles' = processFileOnload(maFiles, id)
  /\ ev' = Event("readerLoad", 0)
  /\ UNCHANGED besidesMedia
  /\ UNCHANGED <<maPhase, maChatSession, maMessages, maIsTyping,
                 maAnalysisProgress, maAuditTask, maSndTask, maNextId, now,
                 nextHandle, inflight>>

ReaderError(id) ==
  /\ Reading(id)
  /\ maFiles' = processFileOnerror(maFiles, id)
  /\ ev' = EventWith("readerError", 0, FileById(id))
  /\ UNCHANGED besidesMedia
  /\ UNCHANGED <<maPhase, maChatSession, maMessages, maIsTyping,
                 maAnalysisProgress, maAuditTask, maSndTask, maNextId, now,
                 nextHandle, inflight>>

\* the "x" of a preview: setFiles(prev => prev.filter(f => f.id !== id))
removeFile(id) ==
  /\ maPhase = "upload"
  /\ \E i \in DOMAIN maFiles : maFiles[i].id = id
  /\ maFiles' = RemoveById(maFiles, id)
  /\ ev' = Event("removeFile", 0)
  /\ UNCHANGED besidesMedia
  /\ UNCHANGED <<maPhase, maChatSession, maMessages, maIsTyping,
                 maAnalysisProgress, maAuditTask, maSndTask, maNextId, now,
                 nextHandle, inflight>>

\* removeFile does not abort the FileReader: the onload or onerror of a file
\* that left the list still runs its setFiles(prev => prev.map(...)).  Any
\* id handed out and no longer listed may have such a read outstanding.
ReaderSettledAfterRemove(id, failed) ==
  /\ id < maNextId
  /\ ~\E i \in DOMAIN maFiles : maFiles[i].id = id
  /\ maFiles' = IF failed THEN processFileOnerror(maFiles, id)
                          ELSE processFileOnload(maFiles, id)
  /\ ev' = Event(IF failed THEN "readerErrorRemoved" ELSE "readerLoadRemoved", 0)
  /\ UNCHANGED besidesMedia
  /\ UNCHANGED <<maPhase, maChatSession, maMessages, maIsTyping,
                 maAnalysisProgress, maAuditTask, maSndTask, maNextId, now,
                 nextHandle, inflight>>

\* startAudit up to its await: the phase is kept, the progress bar starts
startAudit ==
  /\ maPhase = "upload" /\ CanStartAudit /\ nextHandle <= MaxHandles
  /\ maIsTyping' = TRUE
  /\ maAnalysisProgress' = 1
  /\ nextHandle' = nextHandle + 1
  /\ inflight' = Issue(nextHandle)
  /\ maAuditTask' = TaskOpen(nextHandle)
  /\ ev' = EventWith("startAudit", 0, maFiles)
  /\ UNCHANGED besidesMedia
  /\ UNCHANGED <<maFiles, maPhase, maChatSession, maMessages, maSndTask,
                 maNextId, now>>

\* setInterval: the bar creeps up to 95 while the session is being opened
AuditTick(p) ==
  /\ maAuditTask.pc = "open" /\ p > maAnalysisProgress
  /\ maAnalysisProgress' = p
  /\ ev' = Event("auditTick", 0)
  /\ UNCHANGED besidesMedia
  /\ UNCHANGED <<maFiles, maPhase, maChatSession, maMessages, maIsTyping,
                 maAuditTask, maSndTask, maNextId, now, nextHandle, inflight>>

\* createAuditSession resolved: 100, the handle, the phase, a placeholder
AuditOpened(t) ==
  /\ maAuditTask.pc = "open"
  /\ now' = t
  /\ maAnalysisProgress' = 100
  /\ maChatSession' = maAuditTask.chat
  /\ maPhase' = "consultation"
  /\ maMessages' = <<Msg(t, "model", EmptyText)>>
  /\ maAuditTask' = TaskStreaming(maAuditTask, t)
  /\ ev' = Event("auditOpened", 0)
  /\ UNCHANGED besidesMedia
  /\ UNCHANGED <<maFiles, maIsTyping, maSndTask, maNextId, nextHandle,
                 inflight>>

AuditFragment(f) ==
  /\ maAuditTask.pc = "stream" /\ Len(maAuditTask.delivered) < MaxFrags
  /\ maAuditTask' = TaskAppend(maAuditTask, f)
  /\ maMessages' =
       SetContentById(maMessages, maAuditTask.msgId, maAuditTask'.fullText)
  /\ ev' = Event("auditFragment", 0)
  /\ UNCHANGED besidesMedia
  /\ UNCHANGED <<maFiles, maPhase, maChatSession, maIsTyping,
                 maAnalysisProgress, maSndTask, maNextId, now, nextHandle,
                 inflight>>

AuditComplete ==
  /\ maAuditTask.pc = "stream"
  /\ maIsTyping' = FALSE
  /\ inflight' = Settle(maAuditTask.chat)
  /\ maAuditTask' = IdleTask
  /\ ev' = Event("auditComplete", 0)
  /\ UNCHANGED besidesMedia
  /\ UNCHANGED <<maFiles, maPhase, maChatSession, maMessages,
                 maAnalysisProgress, maSndTask, maNextId, now, nextHandle>>

\* the open or the stream threw: setAnalysisProgress(0); alert(...)
AuditFailed ==
  /\ maAuditTask.pc \in {"open", "stream"}
  /\ maAnalysisProgress' = 0
  /\ maIsTyping' = FALSE
  /\ inflight' = Settle(maAuditTask.chat)
  /\ maAuditTask' = IdleTask
  /\ ev' = Event(IF maAuditTask.pc = "open" THEN "auditOpenFailed"
                                            ELSE "auditStreamFailed", 1)
  /\ UNCHANGED besidesMedia
  /\ UNCHANGED <<maFiles, maPhase, maChatSession, maMessages, maSndTask,
                 maNextId, now, nextHandle>>

\* the arrow of the consultation header: setPhase('upload')
BackToUpload ==
  /\ maPhase = "consultation"
  /\ maPhase' = "upload"
  /\ ev' = Event("backToUpload", 0)
  /\ UNCHANGED besidesMedia
  /\ UNCHANGED <<maFiles, maChatSession, maMessages, maIsTyping,
                 maAnalysisProgress, maAuditTask, maSndTask, maNextId, now,
                 nextHandle, inflight>>

\* MediaAnalyzer.handleSendMessage up to its await; the input and the send
\* button are disabled while isTyping
handleAuditSend(txt, t) ==
  /\ maPhase = "consultation" /\ ~maIsTyping /\ maChatSession # NoSession
  /\ UserCount(maMessages) < MaxTurns
  /\ now' = t
  /\ maMessages' = Append(maMessages, Msg(t, "user", txt))
  /\ maIsTyping' = TRUE
  /\ inflight' = Issue(maChatSession)
  /\ maSndTask' = TaskOpen(maChatSession)
  /\ ev' = Event("handleAuditSend", 0)
  /\ UNCHANGED besidesMedia
  /\ UNCHANGED <<maFiles, maPhase, maChatSession, maAnalysisProgress,
                 maAuditTask, maNextId, nextHandle>>

AuditSendOpened(t) ==
  /\ maSndTask.pc = "open"
  /\ now' = t
  /\ maMessages' = Append(maMessages, Msg(t + 1, "model", EmptyText))
  /\ maSndTask' = TaskStreaming(maSndTask, t + 1)
  /\ ev' = Event("auditSendOpened", 0)
  /\ UNCHANGED besidesMedia
  /\ UNCHANGED <<maFiles, maPhase, maChatSession, maIsTyping,
                 maAnalysisProgress, maAuditTask, maNextId, nextHandle,
                 inflight>>

AuditSendFragment(f) ==
  /\ maSndTask.pc = "stream" /\ Len(maSndTask.delivered) < MaxFrags
  /\ maSndTask' = TaskAppend(maSndTask, f)
  /\ maMessages' =
       SetContentById(maMessages, maSndTask.msgId, maSndTask'.fullText)
  /\ ev' = Event("auditSendFragment", 0)
  /\ UNCHANGED besidesMedia
  /\ UNCHANGED <<maFiles, maPhase, maChatSession, maIsTyping,
                 maAnalysisProgress, maAuditTask, maNextId, now, nextHandle,
                 inflight>>

AuditSendComplete ==
  /\ maSndTask.pc = "stream"
  /\ maIsTyping' = FALSE
  /\ inflight' = Settle(maSndTask.chat)
  /\ maSndTask' = IdleTask
  /\ ev' = Event("auditSendComplete", 0)
  /\ UNCHANGED besidesMedia
  /\ UNCHANGED <<maFiles, maPhase, maChatSession, maMessages,
                 maAnalysisProgress, maAuditTask, maNextId, now, nextHandle>>

\* the open or the stream threw: a "**发送失败**" message is appended
AuditSendFailed(t) ==
  /\ maSndTask.pc \in {"open", "stream"}
  /\ now' = t
  /\ maMessages' = Append(maMessages, Msg(t, "model", SendFailedText))
  /\ maIsTyping' = FALSE
  /\ inflight' = Settle(maSndTask.chat)
  /\ maSndTask' = IdleTask
  /\ ev' = Event(IF maSndTask.pc = "open" THEN "auditSendOpenFailed"
                                           ELSE "auditSendStreamFailed", 1)
  /\ UNCHANGED besidesMedia
  /\ UNCHANGED <<maFiles, maPhase, maChatSession, maAnalysisProgress,
                 maAuditTask, maNextId, nextHandle>>

\* the handlers of the upload list alone
IngestNext ==
  \/ \E size \in MediaSizes : handleFileChange(size)
  \/ \E id \in MediaIds, p \in ReadPercents : ReaderProgress(id, p)
  \/ \E id \in MediaIds : ReaderLoad(id)
  \/ \E id \in MediaIds : ReaderError(id)
  \/ \E id \in MediaIds : removeFile(id)
  \/ \E id \in MediaIds, failed \in BOOLEAN : ReaderSettledAfterRemove(id, failed)

\* readAsDataURL always ends in a load or an error event, so a read that has
\* started is eventually settled; nothing obliges the user to act
SpecIngest ==
  /\ Init /\ [][IngestNext]_vars
  /\ \A id \in MediaIds : WF_vars(ReaderLoad(id) \/ ReaderError(id))

MediaNext ==
  \/ IngestNext
  \/ startAudit
  \/ \E p \in AuditPercents : AuditTick(p)
  \/ \E t \in Clock : AuditOpened(t)
  \/ \E f \in Frags : AuditFragment(f)
  \/ AuditComplete
  \/ AuditFailed
  \/ BackToUpload
  \/ \E txt \in UserTexts, t \in Clock : handleAuditSend(txt, t)
  \/ \E t \in Clock : AuditSendOpened(t)
  \/ \E f \in Frags : AuditSendFragment(f)
  \/ AuditSendComplete
  \/ \E t \in Clock : AuditSendFailed(t)

SpecMedia == Init /\ [][MediaNext]_vars

\* ====================================================== context builder
\* The functions of the service layer that assemble the parts of a Turn and
\* read the reply of a one-shot call, applied to every choice of input.
MaxAssets == 2
UserPayloads == {"u1", "u2"}
BenchmarkPayloads == {"b1"}
HistoryPayloads == {"h1"}
Contexts == {"", "funny tone"}
AssetLists(P) ==
  UNION {[1..n -> {[base64 |-> p] : p \in P}] : n \in 0..MaxAssets}

\* `背景/目标：${context || "暂无特殊背景，请以打造爆款为目标"}。 ...`
\* as a text part whose `context` field is the string interpolated into it
InitialPrompt(context) ==
  [kind |-> "text", data |-> "initial-prompt",
   context |-> IF context = "" THEN "default-goal" ELSE context]

\* `... Context provided by user: "${context}". ...`
AuditPrompt(context) ==
  [kind |-> "text", data |-> "audit-prompt", context |-> context]

\* C16, faulty variant of createAuditSession: the current version is pushed
\* before the history and benchmark groups
createAuditSessionUserFirst(user, benchmark, history, context) ==
  <<TextPart("user-header")>> \o MediaParts(user)
  \o (IF Len(history) > 0
        THEN <<TextPart("history-header")>> \o MediaParts(history) ELSE <<>>)
  \o (IF Len(benchmark) > 0
        THEN <<TextPart("benchmark-header")>> \o MediaParts(benchmark)
        ELSE <<>>)
  \o <<InitialPrompt(context)>>

\* createAuditSession(userAssets, benchmarkAssets, historyAssets, context):
\* history, then benchmark, then the header of the current version and its
\* assets, then the prompt
createAuditSession(user, benchmark, history, context) ==
  (IF Len(history) > 0
     THEN <<TextPart("history-header")>> \o MediaParts(history) ELSE <<>>)
  \o (IF Len(benchmark) > 0
        THEN <<TextPart("benchmark-header")>> \o MediaParts(benchmark)
        ELSE <<>>)
  \o <<TextPart("user-header")>> \o MediaParts(user)
  \o <<InitialPrompt(context)>>

\* the two-argument createAuditSession(files, context): files, then prompt
createAuditSessionPlain(files, context) ==
  MediaParts(files) \o <<InitialPrompt(context)>>

\* auditContent(fileBase64, mimeType, context): parts: [inlineData, text]
auditContent(file, context) ==
  <<MediaPart(file), AuditPrompt(context)>>

BuiltWith(op, user, benchmark, history, context, parts) ==
  EventWith(op, 0, [user |-> user, benchmark |-> benchmark,
                    history |-> history, context |-> context,
                    parts |-> parts])

besidesBuilder == <<benchVars, scriptVars, chatVars, topicVars, mediaVars,
                    guideVars, envVars>>

BuildAuditSession(user, benchmark, history, context) ==
  /\ ev' = BuiltWith("createAuditSession", user, benchmark, history, context,
                     createAuditSession(user, benchmark, history, context))
  /\ UNCHANGED besidesBuilder

BuildAuditSessionPlain(files, context) ==
  /\ ev' = BuiltWith("createAuditSessionPlain", files, <<>>, <<>>, context,
                     createAuditSessionPlain(files, context))
  /\ UNCHANGED besidesBuilder

BuildAuditContent(file, context) ==
  /\ ev' = BuiltWith("auditContent", <<file>>, <<>>, <<>>, context,
                     auditContent(file, context))
  /\ UNCHANGED besidesBuilder

BuildResearchTopics(contextFiles, benchmark) ==
  /\ ev' = BuiltWith("researchTopics", contextFiles, benchmark, <<>>, "",
                     researchTopics(contextFiles, benchmark))
  /\ UNCHANGED besidesBuilder

\* response.text of a one-shot structured call: nothing, prose, or JSON
ResponseTexts == {"", "not json", "[]", "{}", "[topic]"}

\* JSON.parse: the value, or a SyntaxError
JSONparse(text) ==
  CASE text = "[]" -> [ok |-> TRUE, value |-> <<>>]
    [] text = "{}" -> [ok |-> TRUE, value |-> <<"object">>]
    [] text = "[topic]" -> [ok |-> TRUE, value |-> <<"topic">>]
    [] OTHER -> [ok |-> FALSE, value |-> <<>>]

\* researchTopics: rawJson = response.text || "[]";
\* try { results = JSON.parse(rawJson) } catch (e) { return [] }
researchTopicsResult(text) ==
  LET parsed == JSONparse(IF text = "" THEN "[]" ELSE text)
  IN [threw |-> FALSE, value |-> IF parsed.ok THEN parsed.value ELSE <<>>]

\* auditContent: try { return JSON.parse(response.text || "{}") }
\* catch (e) { throw new Error("Failed to parse audit result") }
auditContentResult(text) ==
  LET parsed == JSONparse(IF text = "" THEN "{}" ELSE text)
  IN IF parsed.ok THEN [threw |-> FALSE, value |-> parsed.value]
                  ELSE [threw |-> TRUE, value |-> <<"Failed to parse">>]

ResearchTopicsReplied(text) ==
  /\ ev' = EventWith("researchTopicsReplied", 0,
                     [text |-> text, result |-> researchTopicsResult(text)])
  /\ UNCHANGED besidesBuilder

AuditContentReplied(text) ==
  /\ ev' = EventWith("auditContentReplied", 0,
                     [text |-> text, result |-> auditContentResult(text)])
  /\ UNCHANGED besidesBuilder

\* the step-2 conversations handed to createImitationSession
MaxHistory == 3
HistoryMessages ==
  {[role |-> "user", content |-> "q1"], [role |-> "user", content |-> "q2"],
   [role |-> "model", content |-> "m1"]}
Histories == UNION {[1..n -> HistoryMessages] : n \in 0..MaxHistory}
Contents(list) == [i \in DOMAIN list |-> list[i].content]

\* C24, faulty variant of userInsights: the filter on the role is left out
userInsightsAllRoles(conversationHistory) == Contents(conversationHistory)

\* conversationHistory.filter(m => m.role === 'user')
\*   .map(m => `- ${m.content}`).join('\n'), as the list of joined lines
userInsights(conversationHistory) ==
  Contents(SelectSeq(conversationHistory, LAMBDA m : m.role = "user"))

\* createImitationSession: the assets, then one prompt that interpolates
\* the analysis, the insights (when there are any) and the idea
createImitationSession(benchmarkAnalysis, idea, userAssets, history) ==
  MediaParts(userAssets)
  \o <<[kind |-> "text", data |-> "imitation-prompt",
        analysis |-> benchmarkAnalysis,
        insights |-> userInsights(history),
        idea |-> IF idea = "" THEN "default-idea" ELSE idea]>>

BuildImitationSession(analysis, idea, assets, history) ==
  /\ ev' = EventWith("createImitationSession", 0,
                     [analysis |-> analysis, idea |-> idea,
                      history |-> history,
                      parts |-> createImitationSession(analysis, idea, assets,
                                                       history)])
  /\ UNCHANGED besidesBuilder

BuilderNext ==
  \/ \E user \in AssetLists(UserPayloads),
        benchmark \in AssetLists(BenchmarkPayloads),
        history \in AssetLists(HistoryPayloads), context \in Contexts :
       BuildAuditSession(user, benchmark, history, context)
  \/ \E files \in AssetLists(UserPayloads), context \in Contexts :
       BuildAuditSessionPlain(files, context)
  \/ \E p \in UserPayloads, context \in Contexts :
       BuildAuditContent([base64 |-> p], context)
  \/ \E contextFiles \in AssetLists(UserPayloads),
        benchmark \in AssetLists(BenchmarkPayloads) :
       BuildResearchTopics(contextFiles, benchmark)
  \/ \E analysis \in {"", "an"}, idea \in Ideas,
        assets \in {<<>>, <<[base64 |-> "u1"]>>}, history \in Histories :
       BuildImitationSession(analysis, idea, assets, history)
  \/ \E text \in ResponseTexts : ResearchTopicsReplied(text)
  \/ \E text \in ResponseTexts : AuditContentReplied(text)

SpecBuilder == Init /\ [][BuilderNext]_vars

\* ============================== BenchmarkStudio of PromptLibrary.tsx
\* The guide chat (step 4) with its image/video generation.  Steps 1 to 3
\* are the ones of Spec; here only their order is kept.
GuideMsg(id, role, content) ==
  [id |-> id, role |-> role, content |-> content, isThinking |-> FALSE,
   generatedMedia |-> NoMedia]

\* the placeholder of handleGenSubmit: isThinking: true
ThinkingMsg(id) ==
  [GuideMsg(id, "model", GeneratingText) EXCEPT !.isThinking = TRUE]

\* C29, faulty variant of SettleGenById: content and media are replaced, the
\* isThinking flag is not cleared
SettleGenKeepsThinking(list, tempId, content, media) ==
  [i \in DOMAIN list |->
     IF list[i].id = tempId
       THEN [list[i] EXCEPT !.content = content,
                            !.generatedMedia =
                               IF media = NoMedia THEN @ ELSE media]
       ELSE list[i]]

\* prev.map(m => m.id === tempId ? { ...m, content, isThinking: false,
\* generatedMedia } : m); the catch branch leaves generatedMedia as it was
SettleGenById(list, tempId, content, media) ==
  [i \in DOMAIN list |->
     IF list[i].id = tempId
       THEN [list[i] EXCEPT !.content = content, !.isThinking = FALSE,
                            !.generatedMedia =
                               IF media = NoMedia THEN @ ELSE media]
       ELSE list[i]]

\* analysis succeeded (1 to 2), "下一步" (2 to 3)
GuideForward ==
  /\ pgStep \in {1, 2}
  /\ pgStep' = pgStep + 1
  /\ ev' = Event("guideForward", 0)
  /\ UNCHANGED besidesGuide
  /\ UNCHANGED <<pgIsAnalyzing, pgChatSession, pgMessages, pgIsTyping,
                 pgIsGenerating, pgImiTask, pgSndTask, pgGenTask, pgGens,
                 now, nextHandle, inflight>>

\* renderStep2 / renderStep3: setStep(1), setStep(2); never disabled
GuideBack ==
  /\ pgStep \in {2, 3}
  /\ pgStep' = pgStep - 1
  /\ ev' = Event("guideBack", 0)
  /\ UNCHANGED besidesGuide
  /\ UNCHANGED <<pgIsAnalyzing, pgChatSession, pgMessages, pgIsTyping,
                 pgIsGenerating, pgImiTask, pgSndTask, pgGenTask, pgGens,
                 now, nextHandle, inflight>>

\* startImitation up to its await; the button is disabled by isAnalyzing
GuideStartImitation ==
  /\ pgStep = 3 /\ ~pgIsAnalyzing /\ nextHandle <= MaxHandles
  /\ pgIsAnalyzing' = TRUE
  /\ nextHandle' = nextHandle + 1
  /\ inflight' = Issue(nextHandle)
  /\ pgImiTask' = TaskOpen(nextHandle)
  /\ ev' = Event("guideStartImitation", 0)
  /\ UNCHANGED besidesGuide
  /\ UNCHANGED <<pgStep, pgChatSession, pgMessages, pgIsTyping,
                 pgIsGenerating, pgSndTask, pgGenTask, pgGens, now>>

\* setChatSession(chat); setStep(4); setMessages([placeholder])
GuideImitationOpened(t) ==
  /\ pgImiTask.pc = "open"
  /\ now' = t
  /\ pgChatSession' = pgImiTask.chat
  /\ pgStep' = 4
  /\ pgMessages' = <<GuideMsg(t, "model", EmptyText)>>
  /\ pgImiTask' = TaskStreaming(pgImiTask, t)
  /\ ev' = Event("guideImitationOpened", 0)
  /\ UNCHANGED besidesGuide
  /\ UNCHANGED <<pgIsAnalyzing, pgIsTyping, pgIsGenerating, pgSndTask,
                 pgGenTask, pgGens, nextHandle, inflight>>

GuideImitationFragment(f) ==
  /\ pgImiTask.pc = "stream" /\ Len(pgImiTask.delivered) < MaxFrags
  /\ pgImiTask' = TaskAppend(pgImiTask, f)
  /\ pgMessages' =
       SetContentById(pgMessages, pgImiTask.msgId, pgImiTask'.fullText)
  /\ ev' = Event("guideImitationFragment", 0)
  /\ UNCHANGED besidesGuide
  /\ UNCHANGED <<pgStep, pgIsAnalyzing, pgChatSession, pgIsTyping,
                 pgIsGenerating, pgSndTask, pgGenTask, pgGens, now,
                 nextHandle, inflight>>

\* the stream ended, or the open or the stream threw (alert): finally
GuideImitationSettled(failed) ==
  /\ IF failed THEN pgImiTask.pc \in {"open", "stream"}
               ELSE pgImiTask.pc = "stream"
  /\ pgIsAnalyzing' = FALSE
  /\ inflight' = Settle(pgImiTask.chat)
  /\ pgImiTask' = IdleTask
  /\ ev' = Event(IF failed THEN "guideImitationFailed"
                           ELSE "guideImitationComplete",
                 IF failed THEN 1 ELSE 0)
  /\ UNCHANGED besidesGuide
  /\ UNCHANGED <<pgStep, pgChatSession, pgMessages, pgIsTyping,
                 pgIsGenerating, pgSndTask, pgGenTask, pgGens, now,
                 nextHandle>>

\* sendMessage up to its await; input and button are disabled by isTyping
GuideSendMessage(txt, t) ==
  /\ pgStep = 4 /\ ~pgIsTyping /\ pgChatSession # NoSession
  /\ UserCount(pgMessages) < MaxTurns
  /\ now' = t
  /\ pgMessages' = Append(pgMessages, GuideMsg(t, "user", txt))
  /\ pgIsTyping' = TRUE
  /\ inflight' = Issue(pgChatSession)
  /\ pgSndTask' = TaskOpen(pgChatSession)
  /\ ev' = Event("guideSendMessage", 0)
  /\ UNCHANGED besidesGuide
  /\ UNCHANGED <<pgStep, pgIsAnalyzing, pgChatSession, pgIsGenerating,
                 pgImiTask, pgGenTask, pgGens, nextHandle>>

GuideSendOpened(t) ==
  /\ pgSndTask.pc = "open"
  /\ now' = t
  /\ pgMessages' = Append(pgMessages, GuideMsg(t + 1, "model", EmptyText))
  /\ pgSndTask' = TaskStreaming(pgSndTask, t + 1)
  /\ ev' = Event("guideSendOpened", 0)
  /\ UNCHANGED besidesGuide
  /\ UNCHANGED <<pgStep, pgIsAnalyzing, pgChatSession, pgIsTyping,
                 pgIsGenerating, pgImiTask, pgGenTask, pgGens, nextHandle,
                 inflight>>

GuideSendFragment(f) ==
  /\ pgSndTask.pc = "stream" /\ Len(pgSndTask.delivered) < MaxFrags
  /\ pgSndTask' = TaskAppend(pgSndTask, f)
  /\ pgMessages' =
       SetContentById(pgMessages, pgSndTask.msgId, pgSndTask'.fullText)
  /\ ev' = Event("guideSendFragment", 0)
  /\ UNCHANGED besidesGuide
  /\ UNCHANGED <<pgStep, pgIsAnalyzing, pgChatSession, pgIsTyping,
                 pgIsGenerating, pgImiTask, pgGenTask, pgGens, now,
                 nextHandle, inflight>>

\* the stream ended, or the open or the stream threw (console.error): finally
GuideSendSettled(failed) ==
  /\ IF failed THEN pgSndTask.pc \in {"open", "stream"}
               ELSE pgSndTask.pc = "stream"
  /\ pgIsTyping' = FALSE
  /\ inflight' = Settle(pgSndTask.chat)
  /\ pgSndTask' = IdleTask
  /\ ev' = Event(IF failed THEN "guideSendFailed" ELSE "guideSendComplete", 0)
  /\ UNCHANGED besidesGuide
  /\ UNCHANGED <<pgStep, pgIsAnalyzing, pgChatSession, pgMessages,
                 pgIsGenerating, pgImiTask, pgGenTask, pgGens, now,
                 nextHandle>>

\* handleGenSubmit up to its await: the modal of step 4 is closed and the
\* thinking placeholder appended; the button is disabled by isGenerating
handleGenSubmit(genType, t) ==
  /\ pgStep = 4 /\ ~pgIsGenerating /\ pgGens < MaxGens
  /\ now' = t
  /\ pgIsGenerating' = TRUE
  /\ pgMessages' = Append(pgMessages, ThinkingMsg(t))
  /\ pgGenTask' = [pc |-> "wait", tempId |-> t, genType |-> genType]
  /\ pgGens' = pgGens + 1
  /\ ev' = EventWith("handleGenSubmit", 0, pgMessages)
  /\ UNCHANGED besidesGuide
  /\ UNCHANGED <<pgStep, pgIsAnalyzing, pgChatSession, pgIsTyping, pgImiTask,
                 pgSndTask, nextHandle, inflight>>

\* generateImage / generateVideo resolved: the placeholder is replaced
GenResolved ==
  /\ pgGenTask.pc = "wait"
  /\ pgMessages' = SettleGenById(pgMessages, pgGenTask.tempId, GeneratedText,
                                 pgGenTask.genType)
  /\ pgIsGenerating' = FALSE
  /\ pgGenTask' = IdleGen
  /\ ev' = EventWith("genResolved", 0, pgGenTask)
  /\ UNCHANGED besidesGuide
  /\ UNCHANGED <<pgStep, pgIsAnalyzing, pgChatSession, pgIsTyping, pgImiTask,
                 pgSndTask, pgGens, now, nextHandle, inflight>>

\* generateImage / generateVideo threw: `❌ 生成失败: ${e.message}`
GenRejected ==
  /\ pgGenTask.pc = "wait"
  /\ pgMessages' = SettleGenById(pgMessages, pgGenTask.tempId, GenFailedText,
                                 NoMedia)
  /\ pgIsGenerating' = FALSE
  /\ pgGenTask' = IdleGen
  /\ ev' = EventWith("genRejected", 0, pgGenTask)
  /\ UNCHANGED besidesGuide
  /\ UNCHANGED <<pgStep, pgIsAnalyzing, pgChatSession, pgIsTyping, pgImiTask,
                 pgSndTask, pgGens, now, nextHandle, inflight>>

\* "结束会话" of step 4, confirmed: chatSession and the typing flags are kept
GuideResetAll ==
  /\ pgStep = 4
  /\ pgStep' = 1
  /\ pgMessages' = <<>>
  /\ ev' = Event("guideResetAll", 0)
  /\ UNCHANGED besidesGuide
  /\ UNCHANGED <<pgIsAnalyzing, pgChatSession, pgIsTyping, pgIsGenerating,
                 pgImiTask, pgSndTask, pgGenTask, pgGens, now, nextHandle,
                 inflight>>

GuideNext ==
  \/ GuideForward
  \/ GuideBack
  \/ GuideStartImitation
  \/ \E t \in Clock : GuideImitationOpened(t)
  \/ \E f \in Frags : GuideImitationFragment(f)
  \/ \E failed \in BOOLEAN : GuideImitationSettled(failed)
  \/ \E txt \in UserTexts, t \in Clock : GuideSendMessage(txt, t)
  \/ \E t \in Clock : GuideSendOpened(t)
  \/ \E f \in Frags : GuideSendFragment(f)
  \/ \E failed \in BOOLEAN : GuideSendSettled(failed)
  \/ \E genType \in GenTypes, t \in Clock : handleGenSubmit(genType, t)
  \/ GenResolved
  \/ GenRejected
  \/ GuideResetAll

SpecGuide == Init /\ [][GuideNext]_vars

\* handleGenSubmit awaits one provider call; the call resolves or throws once
\* the provider answers.  generateVideo polls the operation every 5 s with no
\* limit of its own, so that the call ends is an assumption on the provider:
\* every request is answered and every operation finishes.  Nothing obliges
\* the user to act.
SpecGuideFair ==
  /\ Init /\ [][GuideNext]_vars
  /\ WF_vars(GenResolved \/ GenRejected)

\* ============================================================== claims

\* C1: for every session handle at most one send is in flight at any time,
\* the opening turn of the session included.
OneSendPerHandle == \A h \in Handles : inflight[h] <= 1

\* C2: reset leaves the workflow in Input with no session handle held and
\* every phase-local field (message lists, analysis text, brief, files) empty.
ResetLeavesNothing ==
  ev.op = "resetAll" =>
    /\ step = 1
    /\ step2ChatSession = NoSession /\ chatSession = NoSession
    /\ messages = <<>> /\ step2Messages = <<>>
    /\ analysisResult = EmptyText /\ userIdea = "" /\ refUrl = ""
    /\ ~refFile /\ userFiles = 0

RestoreRoundTrip ==
  ev.op = "restore" =>
    /\ refUrl = ev.arg.refUrl /\ userIdea = ev.arg.userIdea
    /\ step = (IF ev.arg.step \in {1, 3} THEN ev.arg.step ELSE ev.arg.step - 1)

\* C5: when opening the session fails, the phase is the one the action was
\* started from (handleGenerate starts from step 1).
FailedOpenKeepsPhase == ev.op = "generateOpenFailed" => swStep = 1

GoBackDiscardsLaterPhase ==
  ev.op = "goBackToInput" =>
    step2ChatSession = NoSession /\ step2Messages = <<>>

\* C8: when a stream errors after k fragments, the target message holds
\* f1..fk, the typing state is cleared, and the error is shown exactly once.
StreamErrorSurfacedOnce ==
  ev.op = "sendStreamFailed" =>
    /\ \A i \in DOMAIN messages :
         messages[i].id = ev.arg.msgId /\ messages[i].role = "model"
           => messages[i].content = Flatten(ev.arg.delivered)
    /\ ~isTyping
    /\ ev.notice = 1

\* C9: when a stream completes, the message created for it holds the
\* concatenation of the fragments it delivered.
CompletedStreamHoldsConcatenation ==
  ev.op = "chatComplete" /\ ev.arg.at # 0 =>
    acMessages[ev.arg.at].text = Flatten(ev.arg.delivered)

\* C10: every media part of a request was built from a file whose payload is
\* present (status success).
TurnOnlyFromReadyAssets ==
  \A i \in DOMAIN tfRequest :
    tfRequest[i].kind = "media" => tfRequest[i].data # Undefined

\* C11: a file that failed during encoding does not block submission: with
\* at least one Ready file and one Failed file in the list, and nothing
\* else holding the submit back, the submit action is available and proceeds
\* with the Ready files.
FailedFileDoesNotBlockSubmit ==
  ( /\ maPhase = "upload" /\ maAnalysisProgress = 0
    /\ \E i \in DOMAIN maFiles : maFiles[i].uploadStatus = "success"
    /\ \E i \in DOMAIN maFiles : maFiles[i].uploadStatus = "error"
    /\ \A i \in DOMAIN maFiles :
         maFiles[i].uploadStatus \in {"success", "error"} )
  => CanStartAudit

\* C12: a file whose byte size exceeds the 20 MiB ceiling is rejected by the
\* change handler itself: no read is started for it, so it never enters
\* Encoding and no asset carrying a payload is created from it.
OversizedFileStartsNoRead ==
  /\ (ev.op = "handleRefFileChange" /\ ev.arg.size > MaxFileBytes) => ~refRead
  /\ (ev.op = "handleUserFilesChange" /\ ev.arg.size > MaxFileBytes)
       => userReads = 0
  /\ (ev.op = "handleFileChange" /\ ev.arg.size > MaxFileBytes)
       => \A i \in DOMAIN maFiles : maFiles[i].size <= MaxFileBytes

\* C13: at every moment and for every asset of the upload list, the encoded
\* payload is present if and only if the asset's status is Ready ('success').
PayloadIffReady ==
  \A i \in DOMAIN maFiles :
    (maFiles[i].base64 # Undefined) <=> (maFiles[i].uploadStatus = "success")

\* C13 witness: a read has completed and its asset is Ready with a payload,
\* next to an asset that failed and carries none
ReadyBesideFailed ==
  /\ ev.op = "readerLoad"
  /\ \E i \in DOMAIN maFiles :
       maFiles[i].uploadStatus = "success" /\ maFiles[i].base64 = Payload
  /\ \E i \in DOMAIN maFiles :
       maFiles[i].uploadStatus = "error" /\ maFiles[i].base64 = Undefined

\* C14: the progress recorded for an asset stays within 0..100 and never
\* decreases from one step of its read to the next, the step into the final
\* Failed state included (ev.arg is the asset as the failing read found it).
ProgressNeverDecreases ==
  /\ \A i \in DOMAIN maFiles : maFiles[i].uploadProgress \in 0..100
  /\ ev.op = "readerError" =>
       \A i \in DOMAIN maFiles :
         maFiles[i].id = ev.arg.id =>
           maFiles[i].uploadProgress >= ev.arg.uploadProgress

\* C15 as stated: every file whose size is at most the ceiling eventually
\* reaches Ready with a non-empty encoded payload and progress equal to 100.
InList(id) == \E i \in DOMAIN maFiles : maFiles[i].id = id
ReadyInFull(id) ==
  \E i \in DOMAIN maFiles :
    /\ maFiles[i].id = id /\ maFiles[i].uploadStatus = "success"
    /\ maFiles[i].uploadProgress = 100
    /\ maFiles[i].base64 \notin {Undefined, EmptyPayload}
EveryAcceptedFileBecomesReady ==
  \A id \in MediaIds : Reading(id) ~> ReadyInFull(id)

\* C15 amended: every file whose size is at most the ceiling eventually
\* settles: it is Ready with progress 100 and its payload present (non-empty
\* when the file has bytes), or it is Failed, or the user has removed it.
ReadyAsRead(id) ==
  \E i \in DOMAIN maFiles :
    /\ maFiles[i].id = id /\ maFiles[i].uploadStatus = "success"
    /\ maFiles[i].uploadProgress = 100
    /\ maFiles[i].base64 # Undefined
    /\ maFiles[i].size > 0 => maFiles[i].base64 # EmptyPayload
Failed(id) ==
  \E i \in DOMAIN maFiles :
    maFiles[i].id = id /\ maFiles[i].uploadStatus = "error"
EveryAcceptedFileSettles ==
  \A id \in MediaIds :
    Reading(id) ~> (ReadyAsRead(id) \/ Failed(id) \/ ~InList(id))

\* C15 witness: the read of a file of exactly the ceiling size has completed
\* after reporting progress, and the asset is Ready with payload and 100
CeilingFileReady ==
  /\ ev.op = "readerLoad"
  /\ \E i \in DOMAIN maFiles :
       /\ maFiles[i].size = MaxFileBytes /\ maFiles[i].uploadStatus = "success"
       /\ maFiles[i].uploadProgress = 100 /\ maFiles[i].base64 = Payload
  /\ Len(maFiles) = 1

\* C16: in every Turn produced, all history/benchmark-role parts (their
\* headers and media) precede all primary-content parts, and the instruction
\* text is the last part, whichever groups were supplied.
ReferencePart(part) ==
  \/ part.kind = "text" /\ part.data \in {"history-header", "benchmark-header"}
  \/ part.kind = "media" /\ part.data \in BenchmarkPayloads \cup HistoryPayloads
PrimaryPart(part) ==
  \/ part.kind = "text" /\ part.data \in {"user-header", "context-header"}
  \/ part.kind = "media" /\ part.data \in UserPayloads
InstructionPart(part) ==
  part.kind = "text" /\ ~ReferencePart(part) /\ ~PrimaryPart(part)
ReferenceFirstInstructionLast ==
  ev.op \in {"createAuditSession", "researchTopics"} =>
    LET parts == ev.arg.parts
        n == Len(parts)
    IN /\ n > 0 /\ InstructionPart(parts[n])
       /\ \A i \in 1..(n - 1) : ~InstructionPart(parts[i])
       /\ \A i, j \in 1..n :
            ReferencePart(parts[i]) /\ PrimaryPart(parts[j]) => i < j

\* C16 witness: a Turn was built from history, benchmark and current assets
AllGroupsSupplied ==
  /\ ev.op = "createAuditSession"
  /\ Len(ev.arg.history) > 0 /\ Len(ev.arg.benchmark) > 0
  /\ Len(ev.arg.user) = MaxAssets
  /\ Len(ev.arg.parts) > 5

\* C17: for a submit with exactly one Ready media asset and a context
\* string, the Turn is exactly two parts: the Media part, then one Text part
\* whose instruction contains the context string.
SingleAssetTurnIsMediaThenText ==
  ( /\ ev.op \in {"createAuditSession", "createAuditSessionPlain",
                  "auditContent"}
    /\ Len(ev.arg.user) = 1 /\ ev.arg.benchmark = <<>>
    /\ ev.arg.history = <<>> )
  => LET parts == ev.arg.parts
     IN /\ Len(parts) = 2
        /\ parts[1] = MediaPart(ev.arg.user[1])
        /\ parts[2].kind = "text"
        /\ \/ ev.arg.context = ""
           \/ /\ "context" \in DOMAIN parts[2]
              /\ parts[2].context = ev.arg.context

\* C18: each send carries only the new turn: what goes to the provider with
\* a send holds no earlier user turn rebuilt from the local message list.
SendCarriesOnlyNewTurn ==
  ev.op = "handleSend" =>
    \A i \in DOMAIN ev.arg.history : ev.arg.history[i].role # "user"

\* C19: when a one-shot structured call returns text that does not parse as
\* the expected structure, the caller receives an empty result and no
\* exception is raised.
UnparsableReplyGivesEmptyResult ==
  ( /\ ev.op \in {"researchTopicsReplied", "auditContentReplied"}
    /\ ev.arg.text # "" /\ ~JSONparse(ev.arg.text).ok )
  => (~ev.arg.result.threw /\ ev.arg.result.value = <<>>)

\* C20: each fragment of a stream changes only the message created for that
\* stream: a step in which stream k receives a fragment leaves every other
\* message of the list as it was (an earlier message, a message appended
\* later, the message left after a clear), and the message created for k
\* then holds k's fragments in arrival order.
FragmentChangesOnlyItsMessage ==
  [][\A k \in ChatSlots :
       (acTasks[k].pc = "stream"
          /\ acTasks'[k].delivered # acTasks[k].delivered)
       => /\ Len(acMessages') = Len(acMessages)
          /\ \A i \in DOMAIN acMessages :
               i # acTasks[k].at => acMessages'[i] = acMessages[i]
          /\ acTasks[k].at \in DOMAIN acMessages =>
               acMessages'[acTasks[k].at].text = Flatten(acTasks'[k].delivered)
    ]_vars

\* C21: each Model message provoked by a user turn is immediately preceded
\* by the User message that provoked it: when the reply placeholder of a
\* send is appended, the message just before it is that send's user message.
ModelFollowsItsUserMessage ==
  ev.op = "guideSendOpened" =>
    /\ Len(pgMessages) >= 2
    /\ pgMessages[Len(pgMessages) - 1].role = "user"

\* C22: the phase changes only along the workflow's edges (1 to 2 on
\* analysis success, 2 to 3, 3 to 4 on session open, the go-back edges 2 to 1
\* and 3 to 2, and any phase to 1 by reset or reload): in particular it never
\* becomes 4 from a phase other than 3.
PhaseFollowsWorkflowEdges ==
  [][ \/ step' = step
      \/ step' = 1
      \/ <<step, step'>> \in {<<1, 2>>, <<2, 3>>, <<3, 4>>, <<3, 2>>}
    ]_vars

\* C23: after a stream error or a failed turn on an open session the handle
\* the turn was sent on is still held and the typing flag is cleared, so that
\* in the chat phase the send action is enabled again on the same handle.
CanSendMessage == Ready /\ step = 4 /\ ~isTyping /\ chatSession # NoSession
FailedTurnKeepsHandle ==
  ev.op \in {"sendOpenFailed", "sendStreamFailed"} =>
    /\ chatSession # NoSession /\ chatSession = ev.arg.chat
    /\ (Ready /\ step = 4) => CanSendMessage

\* C23 witness: a stream broke after a fragment and the chat phase is still
\* shown, with the send available on the handle of the broken turn
SendAvailableAfterStreamError ==
  /\ ev.op = "sendStreamFailed" /\ Len(ev.arg.delivered) > 0
  /\ CanSendMessage /\ chatSession = ev.arg.chat

\* C24: the seed of the ImitationGuide session holds the analysis text and
\* the content of every User-role message of the InteractiveAnalysis
\* conversation, in their original order, and of no other message: the k-th
\* folded line is the content of the k-th User message.
SeedFoldsAnalysisAndUserTurns ==
  ev.op = "createImitationSession" =>
    LET h == ev.arg.history
        seed == ev.arg.parts[Len(ev.arg.parts)]
        U == {i \in DOMAIN h : h[i].role = "user"}
    IN /\ seed.analysis = ev.arg.analysis
       /\ Len(seed.insights) = Cardinality(U)
       /\ \A i \in U :
            seed.insights[Cardinality({j \in U : j <= i})] = h[i].content

\* C24 witness: two different user remarks with a model reply between them
\* were folded, the later remark first in the conversation
SeedFromInterleavedHistory ==
  /\ ev.op = "createImitationSession"
  /\ Contents(ev.arg.history) = <<"q2", "m1", "q1">>
  /\ ev.arg.parts[Len(ev.arg.parts)].insights = <<"q2", "q1">>
  /\ ev.arg.analysis = "an"

\* C25: within one message list the ids are pairwise distinct, whatever
\* non-decreasing values the clock returns, so that an update addressed by
\* id (SetContentById) reaches exactly one message.  Stated for the
\* ImitationGuide list of the benchmark workflow.
MessageIdsPairwiseDistinct ==
  \A i, j \in DOMAIN messages :
    i # j => messages[i].id # messages[j].id

\* C26: whenever the audit workflow is in its upload phase with at least one
\* file, every file Ready and no audit request in flight, the start-audit
\* operation is enabled; this covers the upload phase reached again after an
\* earlier audit succeeded and the user went back.
StartAuditEnabledWhenIdle ==
  ( /\ maPhase = "upload"
    /\ Len(maFiles) > 0
    /\ \A i \in DOMAIN maFiles : maFiles[i].uploadStatus = "success"
    /\ maAuditTask.pc = "idle" )
  => CanStartAudit

\* C27: starting the component never replaces a stored snapshot with the
\* default values: the write the save effect makes once the snapshot has been
\* read at start carries the field values of that snapshot.
StartWriteCarriesRestoredFields ==
  (ev.op = "mount" /\ parsedSaved # NoSnapshot)
  => /\ localStorage.refUrl = parsedSaved.refUrl
     /\ localStorage.userIdea = parsedSaved.userIdea

\* C28: a progress, success or failure event of one asset, or its removal,
\* leaves the status, progress and payload of every other asset as they
\* were, and a completion event for an asset that was removed does not put
\* it back in the list.
OtherAssets(list, id) == SelectSeq(list, LAMBDA f : f.id # id)
AssetEvent(id) ==
  \/ \E p \in ReadPercents : ReaderProgress(id, p)
  \/ ReaderLoad(id)
  \/ ReaderError(id)
  \/ removeFile(id)
  \/ \E failed \in BOOLEAN : ReaderSettledAfterRemove(id, failed)
AssetEventTouchesOnlyItsAsset ==
  [][\A id \in MediaIds :
       AssetEvent(id)
         => /\ OtherAssets(maFiles', id) = OtherAssets(maFiles, id)
            /\ (~InList(id) => maFiles' = maFiles)]_vars

\* C28 witness: the read of a removed asset has completed while another
\* asset, still being read, is listed
LateLoadBesideReadingAsset ==
  /\ ev.op = "readerLoadRemoved"
  /\ \E i \in DOMAIN maFiles : maFiles[i].uploadStatus = "uploading"

\* C29 as stated: each media-generation request appends exactly one thinking
\* message to the ImitationGuide list, and that message eventually leaves
\* the thinking state carrying the generated media or an error text.
GenPending(t) == pgGenTask.pc = "wait" /\ pgGenTask.tempId = t
GenMessageSettled(t) ==
  \E i \in DOMAIN pgMessages :
    /\ pgMessages[i].id = t /\ ~pgMessages[i].isThinking
    /\ \/ pgMessages[i].content = GeneratedText
          /\ pgMessages[i].generatedMedia \in GenTypes
       \/ pgMessages[i].content = GenFailedText
OneThinkingMessagePerRequest ==
  ev.op = "handleGenSubmit" =>
    /\ Len(pgMessages) = Len(ev.arg) + 1
    /\ SubSeq(pgMessages, 1, Len(ev.arg)) = ev.arg
    /\ pgMessages[Len(pgMessages)].isThinking
    /\ pgMessages[Len(pgMessages)].id = pgGenTask.tempId
ThinkingListed(t) ==
  \E i \in DOMAIN pgMessages : pgMessages[i].id = t /\ pgMessages[i].isThinking
EmptyStreamFinalizesEmptyMessage ==
  (ev.op = "chatComplete" /\ Len(ev.arg.delivered) = 0 /\ ev.arg.at > 0)
  => /\ ~acIsTyping
     /\ acMessages[ev.arg.at].role = "model"
     /\ acMessages[ev.arg.at].text = EmptyText

====
